---- MODULE Spec2Model ----
(***************************************************************************)
(* The research-brief pipeline of AlliedMasterComputer: the request        *)
(* handler research_create (flask_app/routes/research.py), the duplicate   *)
(* check of ResearchBrief (flask_app/models/research_brief.py) and the     *)
(* model invocation of flask_app/utils/openai_service.py.                  *)
(*                                                                         *)
(* One request is in flight at a time; its position in research_create is  *)
(* pc.  The store of research briefs outlives the requests.                *)
(***************************************************************************)
EXTENDS Integers, Sequences, FiniteSets, TLC

\* ------------------------------------------------------------------ bounds

\* A run explores one of three scenarios, each a bounded slice of what users
\* and the environment can do:
\*   "pipeline": several submissions of several files against a store that
\*               fills up, with at most one abnormal answer of the environment;
\*   "service":  one submission of one document, with every kind of answer
\*               of the model service;
\*   "sizes":    one submission of files at and over the size caps.

\* Files of one submission in the pipeline scenario.
MaxFiles == 2
\* Files of one submission in the size scenario (five files of 25 MB are the
\* smallest batch over the aggregate cap with no file over the per-file cap).
MaxSizedFiles == 5
\* Submissions handled in one run of the pipeline scenario.
MaxRequests == 2
\* Abnormal answers of the environment in one run of the service scenario
\* (two: the rejection that is retried and the failure of the retry).
MaxFaults == 2
\* Abnormal answers of the environment in one run of the pipeline scenario.
MaxPipelineFaults == 1

\* Characters of a summary text whose every spelling is tried.
MaxChars == 4
\* Sections of a summary that is a mapping, and items of a section or a list.
MaxSections == 2
MaxItems == 2

\* ---------------------------------------------------------------- constants

MB == 1024 * 1024
\* research.py:177 and forms/research.py:137
MaxFileSize == 25 * MB
\* research.py:178
MaxTotalSize == 100 * MB
\* config/base.py:23
MAX_CONTENT_LENGTH == 25 * MB
\* tag.py:10: String(100); forms/research.py:222: Length(max=500)
MaxTagNameLength == 100
MaxTagsInputLength == 500
\* forms/research.py:99
MaxUrlLength == 500
\* research_brief.py:20-21: String(500) and String(1000)
MaxTitleLength == 500
MaxCitationLength == 1000
\* openai_service.py:53
MinExtractedChars == 10
\* openai_service.py:500 and forms/research.py:145
MinSourceChars == 50
\* openai_service.py:197 and :195
DefaultMaxTokens == 2000
Gpt5MaxCompletionTokens == 4000

NULL == "NULL"
NoId == 0
Users == {1, 2}

\* ------------------------------------------------------------- uploaded files

\* The byte strings users upload, by name.  "empty" is the empty byte string.
SmallContents == {"c1", "c2", "scan", "short"}
Contents == {"empty", "big", "over"} \cup SmallContents

\* len(pdf_data): what seek(0, 2) / tell() reports for the upload.
ByteLen(d) ==
    CASE d = "empty" -> 0
      [] d = "big"   -> MaxFileSize
      [] d = "over"  -> MaxFileSize + 1
      [] OTHER       -> 2048

\* Characters of text pdfplumber extracts from the document, after strip():
\* "scan" is an image-only scan, "short" a one-line document.
ExtractedChars(d) ==
    CASE d = "scan"  -> MinExtractedChars - 1
      [] d = "short" -> MinSourceChars - 1
      [] d = "c1"    -> MinSourceChars
      [] OTHER       -> MinSourceChars + 70

\* calculate_pdf_hash: a hex digest determined by the bytes alone.
calculate_pdf_hash(d) ==
    CASE d = "c1"    -> "md5-c1"
      [] d = "c2"    -> "md5-c2"
      [] d = "scan"  -> "md5-scan"
      [] d = "short" -> "md5-short"
      [] d = "big"   -> "md5-big"
      [] d = "over"  -> "md5-over"
      [] OTHER       -> "md5-empty"

\* werkzeug.utils.secure_filename as research.py:205 uses it: path parts and
\* non-ASCII characters are dropped, so two names can collide and a name
\* without any ASCII letter or digit becomes the empty string.
NonAsciiName == "???"
RawNames == {"a.pdf", "../a.pdf", "b.pdf", "big.pdf", "over.pdf", NonAsciiName}
secure_filename(raw) ==
    CASE raw = "../a.pdf"    -> "a.pdf"
      [] raw = NonAsciiName  -> ""
      [] OTHER               -> raw

\* FileAllowed(['pdf']) of forms/research.py:21: the name ends in ".pdf".
HasPdfExtension(raw) == raw \in {"a.pdf", "../a.pdf", "b.pdf", "big.pdf", "over.pdf"}

File(raw, d) == [filename |-> raw, data |-> d]

\* What users upload in each scenario.  The part with no filename is what a
\* browser sends for an empty file input.
PipelineUploads ==
    { File("a.pdf", "c1"), File("../a.pdf", "c2"), File("b.pdf", "c1"),
      File("a.pdf", "scan"), File(NonAsciiName, "c1"), File(NonAsciiName, "c2") }
ServiceUploads ==
    { File("a.pdf", "c1"), File("b.pdf", "short"), File("b.pdf", "empty"),
      File("", "empty") }
SizedUploads ==
    { File("a.pdf", "c1"), File("big.pdf", "big"), File("over.pdf", "over"),
      File("", "empty") }

SeqsUpTo(S, n) == UNION { [1..k -> S] : k \in 1..n }

RECURSIVE SumSizes(_)
SumSizes(fs) ==
    IF fs = <<>> THEN 0 ELSE ByteLen(Head(fs).data) + SumSizes(Tail(fs))

\* Content-Length of the multipart body: the parts' bytes and at least one
\* byte of boundary for each part.
ContentLength(fs) == SumSizes(fs) + Len(fs)

\* research.py:170: the parts that carry a filename.
NamedFiles(fs) == SelectSeq(fs, LAMBDA f : f.filename # "")

\* ------------------------------------------------------------- model ids

\* Model ids are compared by prefix and by substring (openai_service.py:149
\* to 174), so an id is spelled out as its characters.
Gpt == <<"g", "p", "t", "-">>
Turbo == <<"t", "u", "r", "b", "o">>
Codex == <<"c", "o", "d", "e", "x">>
Mini == <<"-", "m", "i", "n", "i">>
Nano == <<"-", "n", "a", "n", "o">>
Preview == <<"-", "p", "r", "e", "v", "i", "e", "w">>
ChatLatest == <<"-", "c", "h", "a", "t", "-", "l", "a", "t", "e", "s", "t">>
Gpt5 == Gpt \o <<"5">>
Gpt51 == Gpt5 \o <<".", "1">>
Gpt41 == Gpt \o <<"4", ".", "1">>
Gpt4o == Gpt \o <<"4", "o">>
Gpt4 == Gpt \o <<"4">>
Gpt4Turbo == Gpt4 \o <<"-">> \o Turbo
Gpt35Turbo == Gpt \o <<"3", ".", "5", "-">> \o Turbo
Date(y, m, d) == <<"-", "2", "0", "2", y, "-">> \o m \o <<"-">> \o d

ModelChars(m) ==
    CASE m = "gpt-4-turbo"   -> Gpt4Turbo
      [] m = "gpt-4"         -> Gpt4
      [] m = "gpt-4o"        -> Gpt4o
      [] m = "gpt-5"         -> Gpt5
      [] m = "gpt-3.5-turbo" -> Gpt35Turbo
      [] OTHER               -> <<>>

\* os.environ.get('OPENAI_MODEL', 'gpt-4-turbo'), openai_service.py:126
DefaultModel == "gpt-4-turbo"
EnvModels == {DefaultModel, "gpt-4", "gpt-5"}

startswith(s, p) == Len(p) <= Len(s) /\ SubSeq(s, 1, Len(p)) = p
contains(s, p) ==
    \E i \in 0..(Len(s) - Len(p)) : SubSeq(s, i + 1, i + Len(p)) = p

\* openai_service.py:150-164
json_mode_models ==
    { Gpt51, Gpt5, Gpt5 \o Mini, Gpt5 \o Nano, Gpt5 \o <<"-", "p", "r", "o">>,
      Gpt51 \o <<"-">> \o Codex \o <<"-", "m", "a", "x">>,
      Gpt51 \o <<"-">> \o Codex, Gpt5 \o <<"-">> \o Codex,
      Gpt51 \o <<"-">> \o Codex \o Mini,
      Gpt51 \o ChatLatest, Gpt5 \o ChatLatest,
      Gpt41, Gpt41 \o Mini, Gpt41 \o Nano,
      Gpt4o, Gpt4o \o Mini,
      Gpt4Turbo \o Preview, Gpt4 \o <<"-", "0", "1", "2", "5">> \o Preview,
      Gpt4Turbo \o Date("4", <<"0", "4">>, <<"0", "9">>),
      Gpt4Turbo \o Date("4", <<"0", "8">>, <<"0", "6">>),
      Gpt4Turbo \o Date("4", <<"1", "1">>, <<"2", "0">>),
      Gpt35Turbo \o <<"-", "0", "1", "2", "5">> }

\* openai_service.py:165-171
supports_json_mode(m) ==
    LET id == ModelChars(m) IN
    \/ \E p \in json_mode_models : startswith(id, p)
    \/ contains(id, Gpt5)
    \/ contains(id, Gpt41)
    \/ contains(id, Gpt4o)
    \/ (contains(id, Gpt4Turbo) /\ contains(id, <<"-">>))

\* openai_service.py:174
is_gpt5_model(m) == contains(ModelChars(m), Gpt5)

\* ------------------------------------------------------ request parameters

\* api_params without the model, the messages and the temperature, which every
\* request carries: a mapping from parameter name to value (response_format
\* maps to 1, standing for {"type": "json_object"}).
Without(p, k) == [x \in DOMAIN p \ {k} |-> p[x]]
With(p, k, v) == [x \in DOMAIN p \cup {k} |-> IF x = k THEN v ELSE p[x]]
Pop(p, k, default) == IF k \in DOMAIN p THEN p[k] ELSE default
EmptyParams == [x \in {} |-> 0]

\* openai_service.py:176-201
BuildParams(m) ==
    LET tokens == IF is_gpt5_model(m)
                  THEN With(EmptyParams, "max_completion_tokens", Gpt5MaxCompletionTokens)
                  ELSE With(EmptyParams, "max_tokens", DefaultMaxTokens)
    IN  IF supports_json_mode(m) THEN With(tokens, "response_format", 1) ELSE tokens

\* ------------------------------------------------------------- API failures

\* An exception of the openai client: its class, its HTTP status (0: none)
\* and the words of str(e) the handlers look for.
Exc(cls, status, words) == [cls |-> cls, status |-> status, words |-> words]
NoExc == Exc("none", 0, {})

\* openai 1.x: RateLimitError, AuthenticationError, BadRequestError and
\* InternalServerError are APIStatusErrors; APIStatusError and
\* APIConnectionError are APIErrors; APITimeoutError is an APIConnectionError.
StatusErrors == {"RateLimitError", "AuthenticationError", "BadRequestError",
                 "InternalServerError"}
ConnectionErrors == {"APIConnectionError", "APITimeoutError"}
IsInstance(e, base) ==
    CASE base = "RateLimitError"     -> e.cls = "RateLimitError"
      [] base = "APIStatusError"     -> e.cls \in StatusErrors
      [] base = "APIError"           -> e.cls \in StatusErrors \cup ConnectionErrors
      [] base = "APIConnectionError" -> e.cls \in ConnectionErrors
      [] base = "APITimeoutError"    -> e.cls = "APITimeoutError"
      [] OTHER                       -> TRUE

Exceptions ==
    { Exc("RateLimitError", 429, {"429"}),
      Exc("RateLimitError", 429, {"429", "quota"}),
      Exc("AuthenticationError", 401, {"401", "invalid_api_key"}),
      Exc("BadRequestError", 400, {"response_format", "not supported"}),
      Exc("BadRequestError", 400, {"max_tokens", "not supported", "max_completion_tokens"}),
      Exc("BadRequestError", 400, {"max_completion_tokens", "not supported"}),
      Exc("BadRequestError", 400, {"max_tokens"}),
      Exc("InternalServerError", 500, {}),
      Exc("APIConnectionError", 0, {}),
      Exc("APITimeoutError", 0, {}),
      Exc("RuntimeError", 0, {}) }

\* The messages generate_research_brief returns.
MsgNoKey == "OpenAI API key not configured"
MsgQuota == "OpenAI API quota exceeded (billing, upgrade or wait)"
MsgQuotaShort == "OpenAI API quota exceeded (billing)"
MsgRateLimit == "OpenAI API rate limit exceeded"
MsgAuth == "Invalid OpenAI API key"
MsgStatusError == "OpenAI API error (code)"
MsgApiError == "OpenAI API error"
MsgConnection == "Failed to connect to OpenAI API"
MsgTimeout == "OpenAI API request timed out"
MsgGenerate == "Error generating research brief"
MsgNoChoices == "OpenAI API returned no response choices"
MsgLength == "OpenAI API response was cut off due to token limit"
MsgFiltered == "OpenAI API response was filtered"
MsgNoMessage == "OpenAI API returned no message in response"
MsgEmptyContent == "OpenAI API returned empty response content"
MsgEmptyText == "OpenAI API returned empty response text"
MsgInvalidJson == "OpenAI API returned invalid JSON"
MsgMissing(field) ==
    CASE field = "title"    -> "OpenAI response missing required field: title"
      [] field = "citation" -> "OpenAI response missing required field: citation"
      [] OTHER              -> "OpenAI response missing required field: summary"

\* openai_service.py:428-477: the first handler whose class matches.
ErrorMessage(e) ==
    LET quota == "quota" \in e.words \/ "insufficient_quota" \in e.words
        auth  == "invalid_api_key" \in e.words \/ "authentication" \in e.words
    IN
    CASE IsInstance(e, "RateLimitError") ->
            IF quota THEN MsgQuota ELSE MsgRateLimit
      [] ~IsInstance(e, "RateLimitError") /\ IsInstance(e, "APIStatusError") ->
            IF e.status = 429 \/ quota THEN MsgQuota
            ELSE IF e.status = 401 \/ auth THEN MsgAuth
            ELSE MsgStatusError
      [] ~IsInstance(e, "APIStatusError") /\ IsInstance(e, "APIError") ->
            IF e.status = 429 \/ quota THEN MsgQuota
            ELSE IF e.status = 401 \/ auth THEN MsgAuth
            ELSE MsgApiError
      [] ~IsInstance(e, "APIError") /\ IsInstance(e, "APIConnectionError") ->
            MsgConnection
      [] ~IsInstance(e, "APIConnectionError") /\ IsInstance(e, "APITimeoutError") ->
            MsgTimeout
      [] OTHER ->
            IF "429" \in e.words \/ quota THEN MsgQuotaShort
            ELSE IF "401" \in e.words \/ "invalid_api_key" \in e.words THEN MsgAuth
            ELSE MsgGenerate

\* A retry after any rejection.
RetryAfterAnyRejection(params, e) == TRUE

\* openai_service.py:207-229: the corrected parameters when the rejection
\* names an unsupported parameter, and whether a retry is due.
RetryNeeded(params, e) ==
    LET ns == "not supported" \in e.words IN
    \/ "response_format" \in e.words /\ ns /\ "response_format" \in DOMAIN params
    \/ "max_tokens" \in e.words /\ ns /\ "max_completion_tokens" \in e.words
    \/ "max_completion_tokens" \in e.words /\ ns

CorrectedParams(params, e) ==
    LET ns == "not supported" \in e.words IN
    IF "response_format" \in e.words /\ ns /\ "response_format" \in DOMAIN params
    THEN Without(params, "response_format")
    ELSE IF "max_tokens" \in e.words /\ ns /\ "max_completion_tokens" \in e.words
    THEN With(Without(params, "max_tokens"), "max_completion_tokens",
              Pop(params, "max_tokens", DefaultMaxTokens))
    ELSE IF "max_completion_tokens" \in e.words /\ ns
    THEN With(Without(params, "max_completion_tokens"), "max_tokens",
              Pop(params, "max_completion_tokens", DefaultMaxTokens))
    ELSE params

\* ------------------------------------------------------- model responses

\* The text of a response: nothing, white space, text that is no JSON, or a
\* JSON document.  Of a document the pipeline reads its kind, which of the
\* three required names it holds (keys of an object, elements of an array,
\* substrings of a string) and the shape of the summary value.
RequiredFields == <<"title", "citation", "summary">>
AllFields == {"title", "citation", "summary"}
Content(text, json, has, summary) ==
    [text |-> text, json |-> json, has |-> has, summary |-> summary,
     title |-> 1, citation |-> 1]
\* The same content with a title and a citation of the given lengths.
Sized(c, title, citation) == [c EXCEPT !.title = title, !.citation = citation]
NoContent == Content("none", "-", {}, "-")
Object(has, summary) == Content("json", "object", has, summary)

\* response.choices, choices[0].finish_reason, choices[0].message and its
\* content.
Reply(choices, finish, message, content) ==
    [choices |-> choices, finish |-> finish, message |-> message, content |-> content]
NoReply == Reply(FALSE, "-", FALSE, NoContent)

\* Complete answers: finish reason "stop" and an object with the three fields.
GoodReplies ==
    { Reply(TRUE, "stop", TRUE, Object(AllFields, shape)) : shape \in {"str", "dict", "list"} }

\* Complete answers whose title or citation is as long as the column of
\* research_brief.py:20-21 allows, or one character longer.
LongReplies ==
    { Reply(TRUE, "stop", TRUE, Sized(Object(AllFields, "str"), l[1], l[2])) :
         l \in { <<MaxTitleLength, MaxCitationLength>>,
                 <<MaxTitleLength + 1, 1>>, <<1, MaxCitationLength + 1>> } }

\* Answers the prompt did not ask for.
OddReplies ==
    { Reply(FALSE, "-", FALSE, NoContent),
      Reply(TRUE, "length", TRUE, Object(AllFields, "str")),
      Reply(TRUE, "length", TRUE, Content("notjson", "-", {}, "-")),
      Reply(TRUE, "content_filter", TRUE, Object(AllFields, "str")),
      Reply(TRUE, "content_filter", TRUE, NoContent),
      Reply(TRUE, "stop", FALSE, NoContent),
      Reply(TRUE, "stop", TRUE, NoContent),
      Reply(TRUE, "stop", TRUE, Content("blank", "-", {}, "-")),
      Reply(TRUE, "stop", TRUE, Content("notjson", "-", {}, "-")),
      Reply(TRUE, "stop", TRUE, Content("json", "scalar", {}, "-")),
      Reply(TRUE, "stop", TRUE, Content("json", "array", {}, "-")),
      Reply(TRUE, "stop", TRUE, Content("json", "array", AllFields, "-")),
      Reply(TRUE, "stop", TRUE, Content("json", "string", {"title"}, "-")),
      Reply(TRUE, "stop", TRUE, Object({}, "-")),
      Reply(TRUE, "stop", TRUE, Object({"citation", "summary"}, "str")),
      Reply(TRUE, "stop", TRUE, Object({"title", "summary"}, "str")),
      Reply(TRUE, "stop", TRUE, Object({"title", "citation"}, "-")),
      Reply(TRUE, "stop", TRUE, Object({"summary"}, "str")),
      Reply(TRUE, "stop", TRUE, Object(AllFields, "list_of_numbers")),
      Reply(TRUE, "stop", TRUE, Object(AllFields, "number")) }

\* openai_service.py:290-293: the first required field `field not in
\* brief_data` finds absent, "" when none is.
FirstMissing(has) ==
    IF \E i \in 1..Len(RequiredFields) : RequiredFields[i] \notin has
    THEN RequiredFields[CHOOSE i \in 1..Len(RequiredFields) :
                           /\ RequiredFields[i] \notin has
                           /\ \A j \in 1..(i - 1) : RequiredFields[j] \in has]
    ELSE ""

\* A parser that does not look at the finish reason.
ParseErrorIgnoringFinishReason(r) ==
    LET c == r.content IN
    IF ~r.choices THEN MsgNoChoices
    ELSE IF ~r.message THEN MsgNoMessage
    ELSE IF c.text = "none" THEN MsgEmptyContent
    ELSE IF c.text = "blank" THEN MsgEmptyText
    ELSE IF c.text = "notjson" THEN MsgInvalidJson
    ELSE IF c.json = "scalar" THEN ErrorMessage(Exc("TypeError", 0, {}))
    ELSE IF FirstMissing(c.has) # "" THEN MsgMissing(FirstMissing(c.has))
    ELSE IF c.json \in {"array", "string"} THEN ErrorMessage(Exc("TypeError", 0, {}))
    ELSE IF c.summary = "list_of_numbers" THEN ErrorMessage(Exc("AttributeError", 0, {}))
    ELSE ""

\* openai_service.py:237-347: what generate_research_brief makes of a
\* response: the error it returns, "" when it returns brief data.
\*  - `field not in brief_data` raises TypeError on a JSON number, boolean or
\*    null, and brief_data['summary'] raises it on an array or a string;
\*  - item.startswith raises AttributeError on a list item that is no string;
\*  both reach the handler of line 467.
ParseError(r) ==
    LET c == r.content IN
    IF ~r.choices THEN MsgNoChoices
    ELSE IF r.finish = "length" THEN MsgLength
    ELSE IF r.finish = "content_filter" THEN MsgFiltered
    ELSE IF ~r.message THEN MsgNoMessage
    ELSE IF c.text = "none" THEN MsgEmptyContent
    ELSE IF c.text = "blank" THEN MsgEmptyText
    ELSE IF c.text = "notjson" THEN MsgInvalidJson
    ELSE IF c.json = "scalar" THEN ErrorMessage(Exc("TypeError", 0, {}))
    ELSE IF FirstMissing(c.has) # "" THEN MsgMissing(FirstMissing(c.has))
    ELSE IF c.json \in {"array", "string"} THEN ErrorMessage(Exc("TypeError", 0, {}))
    ELSE IF c.summary = "list_of_numbers" THEN ErrorMessage(Exc("AttributeError", 0, {}))
    ELSE ""

\* brief_data as process_research_brief returns it (openai_service.py:424,
\* :513): the keys it holds and the model that wrote it.
Brief(keys, m) == [keys |-> keys, model_name |-> m, title |-> 0, citation |-> 0]
NoBrief == Brief({}, NULL)

\* ------------------------------------------------------------------- state

VARIABLES
    scenario,          \* "pipeline", "service" or "sizes"
    maxContentLength,  \* app.config['MAX_CONTENT_LENGTH'], 0 when not set
    apiKey,            \* whether OPENAI_API_KEY is set
    envModel,          \* OPENAI_MODEL
    faultsLeft,        \* abnormal answers the environment may still give
    reqsLeft,          \* submissions still to come
    briefs,            \* the research_briefs table, in order of id
    pc,                \* position of the request in research_create
    req,               \* the submission: user, source type, files, text
    idx,               \* 1-based position of the loop of research.py:201
    results,           \* the list `results` of research.py:196
    response,          \* what the request returned
    filename,          \* pdf_filename of the file in hand
    data,              \* pdf_data of the file in hand
    sourceChars,       \* len(source_text.strip()), -1 before there is a text
    params,            \* api_params of the request being sent
    reply,             \* the response of the model service
    briefData,         \* brief_data
    trace,             \* the stages the request went through, in order
    given,             \* the 'summary' of the parsed reply, as the model gave it
    summary,           \* brief_data['summary'] while it is normalized
    step,              \* how far the normalization of the summary is
    tags,              \* the tags table: the names, in order of id
    research_brief_tags, \* the association table: pairs <<brief id, tag id>>
    database,          \* the engine of SQLALCHEMY_DATABASE_URI
    call,              \* the last tag operation and what it did
    songs,             \* the songs table: the committed rows
    jobRow,            \* the music_import_jobs row as committed
    job,               \* the MusicImportJob object of the worker's session
    pending,           \* the list `batch` of music_importer.py:70
    row_num,           \* 1-based position of the loop of music_importer.py:73
    csv,               \* the data rows of the uploaded file
    worker,            \* position of the worker in import_csv_file
    uploaded,          \* whether the uploaded file is still on disk
    session,           \* db.session: "active", or "inactive" after a failed flush
    commitFaults,      \* commits the database may still refuse
    playlist_songs,    \* the association table of playlist.py:7-15
    addOrder,          \* per playlist, the songs it holds in the order they were added
    outcome,           \* what the last playlist operation returned
    spotify_auth,      \* the spotify_auth table, in order of created_at
    clock,             \* datetime.now(), in ticks
    client,            \* what the last get_client did
    submissions        \* the concurrent PDF submissions and where each one is

config == <<scenario, maxContentLength, apiKey, envModel>>
budget == <<faultsLeft, reqsLeft>>
locals == <<filename, data, sourceChars, params, reply, briefData>>
pipeline == <<scenario, maxContentLength, apiKey, envModel, faultsLeft, reqsLeft,
              briefs, pc, req, idx, results, response, filename, data, sourceChars,
              params, reply, briefData, trace>>
normalizer == <<given, summary, step>>
tagging == <<tags, research_brief_tags, database, call>>
importer == <<songs, jobRow, job, pending, row_num, csv, worker, uploaded, session,
              commitFaults>>
playlists == <<playlist_songs, addOrder, outcome>>
spotify == <<spotify_auth, clock, client>>
library == <<importer, playlists, spotify, submissions>>
vars == <<pipeline, normalizer, tagging, library>>

Request(user, type, files, chars) ==
    [user |-> user, source_type |-> type, files |-> files, chars |-> chars]
NoRequest == Request(0, "none", <<>>, 0)

Response(kind, id, batch, flash) ==
    [kind |-> kind, brief_id |-> id, batch_results |-> batch, flash |-> flash]
NoResponse == Response("none", NoId, <<>>, "")

Outcome(name, status, message, id) ==
    [filename |-> name, status |-> status, message |-> message, brief_id |-> id]

\* An entry of the trace: the file (0 for a text), the stage, the parameters
\* of the request a model invocation sent, and notes: the faults of a
\* duplicate check, the words of the message a rejected invocation raised;
\* and the class of the exception a rejected invocation raised.
Event(i, stage, p) ==
    [file |-> i, stage |-> stage, params |-> p, notes |-> {}, cls |-> "none"]
Noted(i, stage, notes) ==
    [file |-> i, stage |-> stage, params |-> EmptyParams, notes |-> notes, cls |-> "none"]
Rejected(i, e) ==
    [file |-> i, stage |-> "rejected", params |-> EmptyParams, notes |-> e.words, cls |-> e.cls]

\* The files the loops of research.py:181 and :201 run over.
pdf_files == NamedFiles(req.files)

MsgEmptyPdf == "The uploaded PDF file is empty."
MsgDupFilename == "Duplicate detected: Duplicate filename"
MsgDupContent == "Duplicate detected: Duplicate content (hash match)"
MsgExtract == "PDF appears to be empty or contains no extractable text."
MsgExtractFailed == "Error extracting text from PDF"
MsgTooShort == "Source text is too short. Please provide at least 50 characters of text."
MsgSaveFailed == "Error saving brief"
MsgCreated == "Research brief created successfully!"
MsgNoFiles == "Please upload at least one PDF file."
MsgFileTooBig == "File exceeds 25MB limit"
MsgTotalTooBig == "Total size of all files exceeds 100MB limit"

\* A research_briefs row.
BriefRow(id, user, title, citation, type, name, bytes, hash, m) ==
    [id |-> id, user_id |-> user, title |-> title, citation |-> citation,
     source_type |-> type, pdf_filename |-> name,
     pdf_data |-> bytes, content_hash |-> hash, model_name |-> m]

\* No summary is being normalized; no tag exists and no tag operation ran.
NormalizerIdle == given = NULL /\ summary = NULL /\ step = "none"
Call(op, user, brief, input, result) ==
    [op |-> op, user |-> user, brief |-> brief, input |-> input, result |-> result]
NoCall == Call("none", NoId, NoId, <<>>, "")
TaggingIdle ==
    tags = <<>> /\ research_brief_tags = {} /\ database = "sqlite" /\ call = NoCall

\* music_import_job.py:10-29: a row of music_import_jobs; started_at and
\* finished_at are kept as set or not set.
Job(status, total, processed, inserted, duplicate, errors, started, finished, message) ==
    [status |-> status, total_rows |-> total, processed_rows |-> processed,
     inserted_count |-> inserted, duplicate_count |-> duplicate, error_count |-> errors,
     started_at |-> started, finished_at |-> finished, error_message |-> message]
NoJob == Job("none", 0, 0, 0, 0, 0, FALSE, FALSE, NULL)
\* No import runs and no song is stored.
ImporterIdle ==
    /\ songs = {} /\ jobRow = NoJob /\ job = NoJob /\ pending = <<>> /\ row_num = 0
    /\ csv = <<>> /\ worker = "none" /\ uploaded = FALSE /\ session = "active"
    /\ commitFaults = 0

\* What a playlist operation returned (playlist.py:127-197).
Did(op, playlist, uri, ok, message, listed) ==
    [op |-> op, playlist |-> playlist, track_uri |-> uri, ok |-> ok,
     message |-> message, listed |-> listed]
NoOutcome == Did("none", NoId, NoId, FALSE, "", <<>>)
PlaylistsIdle == playlist_songs = {} /\ addOrder = <<>> /\ outcome = NoOutcome

\* What get_client did (spotify_service.py:40-68): the client it returned,
\* with the access token it was built on, or the error it raised; and what
\* it met: whether an authorization was stored, whether the most recent one
\* was expired when get_client tested it and had a refresh token, and
\* whether a refresh was or would have been granted and saved.
Got(result, token, message, stored, expired, refreshable, granted) ==
    [result |-> result, access_token |-> token, message |-> message, stored |-> stored,
     expired |-> expired, refreshable |-> refreshable, granted |-> granted]
NoClient == Got("none", NoId, "", FALSE, FALSE, FALSE, FALSE)
SpotifyIdle == spotify_auth = <<>> /\ clock = 0 /\ client = NoClient

LibraryIdle == ImporterIdle /\ PlaylistsIdle /\ SpotifyIdle /\ submissions = <<>>

Init ==
    /\ NormalizerIdle
    /\ TaggingIdle
    /\ LibraryIdle
    /\ \/ /\ scenario = "pipeline"
          /\ maxContentLength = MAX_CONTENT_LENGTH
          /\ apiKey = TRUE
          /\ envModel = DefaultModel
          /\ faultsLeft = MaxPipelineFaults
          /\ reqsLeft = MaxRequests
       \/ /\ scenario = "service"
          /\ maxContentLength = MAX_CONTENT_LENGTH
          /\ apiKey \in BOOLEAN
          /\ envModel \in EnvModels
          /\ faultsLeft = MaxFaults
          /\ reqsLeft = 1
       \/ /\ scenario = "sizes"
          /\ maxContentLength \in {MAX_CONTENT_LENGTH, 0}
          /\ apiKey = TRUE
          /\ envModel = DefaultModel
          /\ faultsLeft = 0
          /\ reqsLeft = 1
    /\ briefs = <<>>
    /\ pc = "idle"
    /\ req = NoRequest
    /\ idx = 0
    /\ results = <<>>
    /\ response = NoResponse
    /\ filename = NULL
    /\ data = NULL
    /\ sourceChars = -1
    /\ params = EmptyParams
    /\ reply = NoReply
    /\ briefData = NoBrief
    /\ trace = <<>>

\* A new request starts with fresh locals.
Begin(r) ==
    /\ pc \in {"idle", "done"}
    /\ reqsLeft > 0
    /\ reqsLeft' = reqsLeft - 1
    /\ req' = r
    /\ idx' = 0
    /\ results' = <<>>
    /\ filename' = NULL
    /\ data' = NULL
    /\ sourceChars' = -1
    /\ params' = EmptyParams
    /\ reply' = NoReply
    /\ briefData' = NoBrief
    /\ trace' = <<>>
    /\ UNCHANGED <<config, normalizer, library, tagging>>

\* The request ends with the form shown again and a message.
ShowForm(msg) ==
    /\ pc' = "done"
    /\ response' = Response("form", NoId, <<>>, msg)

\* ---------------------------------------------------------- form validation

\* Flask refuses a body longer than MAX_CONTENT_LENGTH with 413 when the form
\* of research.py:78 reads the request.
TooLargeForFlask(fs) ==
    maxContentLength > 0 /\ ContentLength(fs) > maxContentLength

\* forms/research.py:17-24 and :119-140.  The field holds the first part that
\* has a filename; with no part at all Optional() ends the validation.
PdfFormValid(fs) ==
    \/ fs = <<>>
    \/ /\ NamedFiles(fs) # <<>>
       /\ HasPdfExtension(NamedFiles(fs)[1].filename)
       /\ ByteLen(NamedFiles(fs)[1].data) <= MaxFileSize

\* forms/research.py:26-31 and :142-146.  Optional() ends the validation of a
\* text that is empty or white space only, before the validators of the
\* length run; any other text needs fifty characters, and fifty after strip().
TextFormValid(raw, chars) == chars = 0 \/ (raw >= MinSourceChars /\ chars >= MinSourceChars)

\* ------------------------------------------------------------ the store

\* BaseModel.safe_create: the row is stored whole, with the next id, or not
\* at all.
safe_create(store, user, title, citation, type, name, bytes, hash, m) ==
    Append(store, BriefRow(Len(store) + 1, user, title, citation, type, name, bytes, hash, m))

\* Query.first() of a query with no ORDER BY: any matching row.
\* research_brief.py:87-100; a failed query is logged and answers None.
find_duplicate_by_filename(store, name, fails) ==
    LET hits == { i \in 1..Len(store) : store[i].pdf_filename = name } IN
    IF fails \/ name = "" \/ hits = {} THEN {NoId} ELSE hits

\* research_brief.py:75-85
find_duplicate_by_hash(store, hash, fails) ==
    LET hits == { i \in 1..Len(store) : store[i].content_hash = hash } IN
    IF fails \/ hash = "" \/ hits = {} THEN {NoId} ELSE hits

Duplicate(is, id, reason) == [is_duplicate |-> is, brief_id |-> id, reason |-> reason]
NotDuplicate == Duplicate(FALSE, NoId, "")

\* The faults of one duplicate check: the filename query fails, the body of
\* hashing of research_brief.py:123 raises inside the try, the hash query
\* fails.
DedupFaults == SUBSET {"filename_lookup", "hashing", "hash_lookup"}

\* A duplicate check that fails closed: a failed lookup counts as a match.
check_duplicate_fail_closed(store, name, bytes, faults) ==
    LET by_name == find_duplicate_by_filename(store, name, FALSE)
        by_hash == find_duplicate_by_hash(store, calculate_pdf_hash(bytes), FALSE)
    IN  IF faults # {} THEN { Duplicate(TRUE, NoId, MsgDupContent) }
        ELSE { Duplicate(TRUE, i, MsgDupFilename) : i \in by_name \ {NoId} }
             \cup
             ( IF NoId \notin by_name THEN {}
               ELSE { Duplicate(TRUE, i, MsgDupContent) : i \in by_hash \ {NoId} }
                    \cup (IF NoId \in by_hash THEN {NotDuplicate} ELSE {}) )

\* A duplicate check that looks at the content first.
check_duplicate_content_first(store, name, bytes, faults) ==
    LET by_name == find_duplicate_by_filename(store, name, "filename_lookup" \in faults)
        by_hash == find_duplicate_by_hash(store, calculate_pdf_hash(bytes),
                                          "hash_lookup" \in faults)
    IN  { Duplicate(TRUE, i, MsgDupContent) : i \in by_hash \ {NoId} }
        \cup
        ( IF NoId \notin by_hash THEN {}
          ELSE { Duplicate(TRUE, i, MsgDupFilename) : i \in by_name \ {NoId} }
               \cup (IF NoId \in by_name THEN {NotDuplicate} ELSE {}) )

\* A duplicate check that compares the filename only.
check_duplicate_by_filename_only(store, name, bytes, faults) ==
    LET by_name == find_duplicate_by_filename(store, name, "filename_lookup" \in faults)
    IN  { Duplicate(TRUE, i, MsgDupFilename) : i \in by_name \ {NoId} }
        \cup (IF NoId \in by_name THEN {NotDuplicate} ELSE {})

\* research_brief.py:102-134: the answers check_duplicate can give.
check_duplicate(store, name, bytes, faults) ==
    LET by_name == find_duplicate_by_filename(store, name, "filename_lookup" \in faults)
        by_hash == find_duplicate_by_hash(store, calculate_pdf_hash(bytes),
                                          "hash_lookup" \in faults)
    IN  { Duplicate(TRUE, i, MsgDupFilename) : i \in by_name \ {NoId} }
        \cup
        ( IF NoId \notin by_name THEN {}
          ELSE IF "hashing" \in faults THEN {NotDuplicate}
          ELSE { Duplicate(TRUE, i, MsgDupContent) : i \in by_hash \ {NoId} }
               \cup (IF NoId \in by_hash THEN {NotDuplicate} ELSE {}) )

\* ------------------------------------------------------------- the request

UseFaults(n) == faultsLeft >= n /\ faultsLeft' = faultsLeft - n

\* What the scenario of the run lets users submit and the environment answer.
Uploads ==
    CASE scenario = "pipeline" -> PipelineUploads
      [] scenario = "service"  -> ServiceUploads
      [] OTHER                 -> SizedUploads
MaxBatch ==
    CASE scenario = "pipeline" -> MaxFiles
      [] scenario = "service"  -> 1
      [] OTHER                 -> MaxSizedFiles
Submitters == IF scenario = "pipeline" THEN Users ELSE {1}

\* Size checks that look at each file and not at the total.
SizeRejectionPerFileOnly(fs) ==
    IF \E i \in 1..Len(fs) : ByteLen(fs[i].data) > MaxFileSize THEN MsgFileTooBig
    ELSE ""

\* research.py:176-193: the message the size checks reject the batch with,
\* "" when they let it pass.
SizeRejection(fs) ==
    IF \E i \in 1..Len(fs) : ByteLen(fs[i].data) > MaxFileSize THEN MsgFileTooBig
    ELSE IF SumSizes(fs) > MaxTotalSize THEN MsgTotalTooBig
    ELSE ""

\* The loop of research.py:201 moves to the next file, or ends.
Advance ==
    /\ idx' = idx + 1
    /\ pc' = IF idx + 1 > Len(pdf_files) THEN "finish" ELSE "read"
    /\ response' = response

\* A loop that ends at the first file that fails.
FailStopsTheBatch(msg) ==
    IF req.source_type = "pdf"
    THEN /\ results' = Append(results, Outcome(filename, "error", msg, NoId))
         /\ idx' = idx
         /\ pc' = "finish"
         /\ response' = response
    ELSE /\ ShowForm(msg)
         /\ UNCHANGED <<results, idx>>

\* The file in hand (or the text) ends with an error: one more outcome of the
\* batch (research.py:241-250), or the form with the message (:93-96).
Fail(msg) ==
    IF req.source_type = "pdf"
    THEN /\ results' = Append(results, Outcome(filename, "error", msg, NoId))
         /\ Advance
    ELSE /\ ShowForm(msg)
         /\ UNCHANGED <<results, idx>>

\* research.py:78-81, :166-174: a PDF submission arrives.
SubmitPdf(u, fs) ==
    /\ Begin(Request(u, "pdf", fs, 0))
    /\ IF TooLargeForFlask(fs)
       THEN /\ pc' = "done"
            /\ response' = Response("413", NoId, <<>>, "")
       ELSE IF ~PdfFormValid(fs) THEN ShowForm("form errors")
       ELSE IF NamedFiles(fs) = <<>> THEN ShowForm(MsgNoFiles)
       ELSE /\ pc' = "sizes"
            /\ response' = NoResponse
    /\ UNCHANGED <<briefs, faultsLeft>>

\* research.py:176-193
ValidateSizes ==
    /\ pc = "sizes"
    /\ IF SizeRejection(pdf_files) # ""
       THEN /\ ShowForm(SizeRejection(pdf_files))
            /\ idx' = idx
       ELSE /\ pc' = "read"
            /\ idx' = 1
            /\ response' = response
    /\ UNCHANGED <<config, normalizer, library, tagging, budget, briefs, req, results, locals, trace>>

\* A loop that hands the file to process_research_brief without the
\* duplicate check.
ReadFileSkipsDuplicateCheck ==
    /\ pc = "read"
    /\ filename' = secure_filename(pdf_files[idx].filename)
    /\ data' = pdf_files[idx].data
    /\ IF ByteLen(pdf_files[idx].data) = 0
       THEN /\ results' = Append(results,
                    Outcome(secure_filename(pdf_files[idx].filename), "error",
                            MsgEmptyPdf, NoId))
            /\ Advance
       ELSE /\ pc' = "extract"
            /\ UNCHANGED <<results, idx, response>>
    /\ trace' = Append(trace, Event(idx, "read", EmptyParams))
    /\ UNCHANGED <<config, normalizer, library, tagging, budget, briefs, req, sourceChars, params, reply, briefData>>

\* research.py:201-216
ReadFile ==
    /\ pc = "read"
    /\ filename' = secure_filename(pdf_files[idx].filename)
    /\ data' = pdf_files[idx].data
    /\ IF ByteLen(pdf_files[idx].data) = 0
       THEN /\ results' = Append(results,
                    Outcome(secure_filename(pdf_files[idx].filename), "error",
                            MsgEmptyPdf, NoId))
            /\ Advance
       ELSE /\ pc' = "dedup"
            /\ UNCHANGED <<results, idx, response>>
    /\ trace' = Append(trace, Event(idx, "read", EmptyParams))
    /\ UNCHANGED <<config, normalizer, library, tagging, budget, briefs, req, sourceChars, params, reply, briefData>>

\* A duplicate check that records the duplicate and goes on with the file.
CheckDuplicateFallsThrough ==
    /\ pc = "dedup"
    /\ \E d \in check_duplicate(briefs, filename, data, {}) :
          /\ results' = IF d.is_duplicate
                        THEN Append(results, Outcome(filename, "duplicate", d.reason, d.brief_id))
                        ELSE results
          /\ pc' = "extract"
    /\ trace' = Append(trace, Noted(idx, "dedup", {}))
    /\ UNCHANGED <<config, normalizer, library, tagging, budget, briefs, req, idx, response, locals>>

\* research.py:218-232
CheckDuplicate ==
    /\ pc = "dedup"
    /\ \E faults \in (IF scenario = "pipeline" THEN DedupFaults ELSE {{}}) :
          /\ UseFaults(Cardinality(faults))
          /\ trace' = Append(trace, Noted(idx, "dedup", faults))
          /\ \E d \in check_duplicate(briefs, filename, data, faults) :
                IF d.is_duplicate
                THEN /\ results' = Append(results,
                             Outcome(filename, "duplicate", d.reason, d.brief_id))
                     /\ Advance
                ELSE /\ pc' = "extract"
                     /\ UNCHANGED <<results, idx, response>>
    /\ UNCHANGED <<config, normalizer, library, tagging, reqsLeft, briefs, req, locals>>

\* An extraction with no minimum of fifty characters.
ExtractionErrorWithoutMinimum(chars) ==
    IF chars < MinExtractedChars THEN MsgExtract ELSE ""

\* openai_service.py:480-501 (process_research_brief) and :27-60
\* (extract_text_from_pdf): the source text, or the error it ends with.
ExtractionError(chars) ==
    IF chars < MinExtractedChars THEN MsgExtract
    ELSE IF chars < MinSourceChars THEN MsgTooShort
    ELSE ""

ExtractText ==
    /\ pc = "extract"
    /\ IF req.source_type = "pdf"
       THEN \E raises \in BOOLEAN :
              /\ UseFaults(IF raises THEN 1 ELSE 0)
              /\ trace' = Append(trace, Event(idx, "extract", EmptyParams))
              /\ IF raises
                 THEN /\ Fail(MsgExtractFailed)
                      /\ sourceChars' = sourceChars
                 ELSE IF ExtractionError(ExtractedChars(data)) # ""
                 THEN /\ Fail(ExtractionError(ExtractedChars(data)))
                      /\ sourceChars' = sourceChars
                 ELSE /\ sourceChars' = ExtractedChars(data)
                      /\ pc' = "invoke"
                      /\ UNCHANGED <<results, idx, response>>
       ELSE /\ sourceChars' = req.chars
            /\ IF req.chars < MinSourceChars
               THEN Fail(MsgTooShort)
               ELSE /\ pc' = "invoke"
                    /\ UNCHANGED <<results, idx, response>>
            /\ UNCHANGED <<faultsLeft, trace>>
    /\ briefData' = NoBrief
    /\ UNCHANGED <<config, normalizer, library, tagging, reqsLeft, briefs, req, filename, data, params, reply>>

\* What the model service answers to one request: a reply or an exception;
\* every answer but a complete one counts as a fault of the run.
Replies ==
    GoodReplies \cup
    (IF scenario = "service" THEN OddReplies \cup LongReplies
     ELSE { Reply(TRUE, "stop", TRUE, Content("notjson", "-", {}, "-")) })
Raised ==
    IF scenario = "service" THEN Exceptions ELSE { Exc("RateLimitError", 429, {"429"}) }
FaultsOfReply(r) == IF r \in GoodReplies \cup LongReplies THEN 0 ELSE 1

\* openai_service.py:120-235: the first request and, when it is rejected,
\* the decision to retry.  params and reply are locals of
\* generate_research_brief: they are gone when it returns.
FirstRequest ==
    /\ pc = "invoke"
    /\ IF ~apiKey
       THEN /\ Fail(MsgNoKey)
            /\ UNCHANGED <<faultsLeft, params, reply, trace>>
       ELSE \/ \E r \in Replies :
                    /\ UseFaults(FaultsOfReply(r))
                    /\ trace' = Append(trace, Event(idx, "invoke", BuildParams(envModel)))
                    /\ reply' = r
                    /\ params' = BuildParams(envModel)
                    /\ pc' = "parse"
                    /\ UNCHANGED <<results, idx, response>>
            \/ \E e \in Raised :
                    /\ UseFaults(1)
                    /\ trace' = trace \o << Event(idx, "invoke", BuildParams(envModel)),
                                            Rejected(idx, e) >>
                    /\ reply' = NoReply
                    /\ IF RetryNeeded(BuildParams(envModel), e)
                       THEN /\ params' = CorrectedParams(BuildParams(envModel), e)
                            /\ pc' = "retry"
                            /\ UNCHANGED <<results, idx, response>>
                       ELSE /\ params' = EmptyParams
                            /\ Fail(ErrorMessage(e))
    /\ UNCHANGED <<config, normalizer, library, tagging, reqsLeft, briefs, req, filename, data, sourceChars, briefData>>

\* openai_service.py:231-232: the one retry; its failure goes to the handlers
\* of :428-477.
RetryRequest ==
    /\ pc = "retry"
    /\ \/ \E r \in Replies :
            /\ UseFaults(FaultsOfReply(r))
            /\ trace' = Append(trace, Event(idx, "invoke", params))
            /\ reply' = r
            /\ params' = params
            /\ pc' = "parse"
            /\ UNCHANGED <<results, idx, response>>
       \/ \E e \in Raised :
            /\ UseFaults(1)
            /\ trace' = trace \o << Event(idx, "invoke", params),
                                    Rejected(idx, e) >>
            /\ reply' = NoReply
            /\ params' = EmptyParams
            /\ Fail(ErrorMessage(e))
    /\ UNCHANGED <<config, normalizer, library, tagging, reqsLeft, briefs, req, filename, data, sourceChars, briefData>>

\* openai_service.py:237-426 and :505-515: the response becomes brief_data,
\* with the model name and the source text added, or an error.
ParseResponse ==
    /\ pc = "parse"
    /\ trace' = Append(trace, Event(idx, "normalize", EmptyParams))
    /\ IF ParseError(reply) # ""
       THEN /\ Fail(ParseError(reply))
            /\ briefData' = NoBrief
       ELSE /\ briefData' = [Brief(reply.content.has \cup {"model_name", "source_text"},
                                   envModel)
                                EXCEPT !.title = reply.content.title,
                                       !.citation = reply.content.citation]
            /\ pc' = "persist"
            /\ UNCHANGED <<results, idx, response>>
    /\ params' = EmptyParams
    /\ reply' = NoReply
    /\ UNCHANGED <<config, normalizer, library, tagging, budget, briefs, req, filename, data, sourceChars>>

\* research.py:264-266 and :105-106
MissingFields(b) == (AllFields \cup {"source_text"}) \ b.keys

\* The row holds a title or a citation longer than its column.
OverLength(b) == b.title > MaxTitleLength \/ b.citation > MaxCitationLength

\* research.py:252-317 for a file of a batch, :98-135 for a text; the store
\* may refuse the row.  Neither the service nor the route looks at the length
\* of the title and the citation: what happens to a row that is over length
\* is up to the database, SQLite (config/base.py:28) stores it and PostgreSQL
\* (config/base.py:40-42) refuses it.
Persist ==
    /\ pc = "persist"
    /\ IF MissingFields(briefData) # {}
       THEN /\ Fail("Missing required fields")
            /\ UNCHANGED <<briefs, faultsLeft, trace>>
       ELSE /\ trace' = Append(trace, Event(idx, "persist", EmptyParams))
            /\ \E refused \in BOOLEAN :
                 /\ UseFaults(IF refused /\ ~OverLength(briefData) THEN 1 ELSE 0)
                 /\ IF refused
                    THEN /\ Fail(MsgSaveFailed)
                         /\ briefs' = briefs
                    ELSE IF req.source_type = "pdf"
                    THEN /\ briefs' = safe_create(briefs, req.user, briefData.title,
                                                  briefData.citation, "pdf", filename, data,
                                                  calculate_pdf_hash(data),
                                                  briefData.model_name)
                         /\ results' = Append(results,
                                 Outcome(filename, "success", MsgCreated, Len(briefs) + 1))
                         /\ Advance
                    ELSE /\ briefs' = safe_create(briefs, req.user, briefData.title,
                                                  briefData.citation, "text", NULL, NULL,
                                                  NULL, briefData.model_name)
                         /\ pc' = "done"
                         /\ response' = Response("redirect", Len(briefs) + 1, <<>>, MsgCreated)
                         /\ UNCHANGED <<results, idx>>
    /\ UNCHANGED <<config, normalizer, library, tagging, reqsLeft, req, locals>>

\* The end of a submission that sends the user to the first record created,
\* however many files there were.
FinishAtFirstSuccess ==
    /\ pc = "finish"
    /\ pc' = "done"
    /\ response' =
          IF Len(results) >= 1 /\ results[1].status = "success"
          THEN Response("redirect", results[1].brief_id, <<>>, "")
          ELSE Response("results", NoId, results, "")
    /\ UNCHANGED <<config, normalizer, library, tagging, budget, briefs, req, idx, results, locals, trace>>

\* research.py:319-332
Count(status) == Cardinality({ i \in 1..Len(results) : results[i].status = status })
Finish ==
    /\ pc = "finish"
    /\ pc' = "done"
    /\ response' =
          IF Len(results) = 1 /\ results[1].status = "success"
          THEN Response("redirect", results[1].brief_id, <<>>, "")
          ELSE Response("results", NoId, results, "")
    /\ UNCHANGED <<config, normalizer, library, tagging, budget, briefs, req, idx, results, locals, trace>>

\* research.py:83-91: a pasted text arrives, of `raw` characters and `chars`
\* characters after strip().  An empty text that passed the form matches no
\* branch of research_create and the form is shown again (research.py:334).
Text(raw, chars) == [raw |-> raw, chars |-> chars]
TextInputs ==
    { Text(0, 0), Text(2, 0), Text(MinSourceChars + 2, MinSourceChars - 1),
      Text(MinSourceChars, MinSourceChars) }
SubmitText(u, t) ==
    /\ Begin(Request(u, "text", <<>>, t.chars))
    /\ IF ~TextFormValid(t.raw, t.chars) THEN ShowForm("form errors")
       ELSE IF t.raw = 0 THEN ShowForm("")
       ELSE /\ pc' = "extract"
            /\ response' = NoResponse
    /\ UNCHANGED <<briefs, faultsLeft>>

\* research.py:137-163: a manual entry; forms/research.py:148-175 validate
\* its fields.
SubmitManual(u, valid) ==
    /\ Begin(Request(u, "manual", <<>>, 0))
    /\ IF ~valid
       THEN /\ ShowForm("form errors")
            /\ UNCHANGED <<briefs, faultsLeft>>
       ELSE \E refused \in BOOLEAN :
              /\ UseFaults(IF refused THEN 1 ELSE 0)
              /\ IF refused
                 THEN /\ ShowForm(MsgSaveFailed)
                      /\ briefs' = briefs
                 ELSE /\ briefs' = safe_create(briefs, u, 1, 1, "manual", NULL, NULL, NULL,
                                               "ChatGPT")
                      /\ pc' = "done"
                      /\ response' = Response("redirect", Len(briefs) + 1, <<>>, MsgCreated)

Next ==
    \/ \E u \in Submitters, fs \in SeqsUpTo(Uploads, MaxBatch) \cup {<<>>} : SubmitPdf(u, fs)
    \/ \E u \in Submitters, t \in TextInputs : SubmitText(u, t)
    \/ \E u \in Submitters, valid \in BOOLEAN : SubmitManual(u, valid)
    \/ ValidateSizes
    \/ ReadFile
    \/ CheckDuplicate
    \/ ExtractText
    \/ FirstRequest
    \/ RetryRequest
    \/ ParseResponse
    \/ Persist
    \/ Finish

Spec == Init /\ [][Next]_vars

\* ------------------------------------------------------------------ claims

InBatch == req.source_type = "pdf" /\ pc \in {"read", "dedup", "extract", "invoke",
                                               "retry", "parse", "persist", "finish"}
Answered == req.source_type = "pdf" /\ pc = "done" /\ response.kind \in {"results", "redirect"}
StagesOf(i) == { trace[k].stage : k \in { j \in 1..Len(trace) : trace[j].file = i } }

C2_DuplicateOutcome ==
    /\ [](req.source_type = "pdf" =>
            \A i \in 1..Len(results) :
               results[i].status = "duplicate" =>
                  /\ results[i].brief_id \in 1..Len(briefs)
                  /\ \/ briefs[results[i].brief_id].pdf_filename = results[i].filename
                     \/ briefs[results[i].brief_id].content_hash =
                           calculate_pdf_hash(pdf_files[i].data)
                  /\ StagesOf(i) = {"read", "dedup"})
    /\ [][pc = "dedup" /\ pc' # "extract" =>
            /\ briefs' = briefs
            /\ Len(results') = Len(results) + 1
            /\ results'[Len(results')].status = "duplicate"
            /\ results'[Len(results')].filename = filename
            /\ pc' \in {"read", "finish"}]_vars

\* A batch whose first file is stored and whose second file, with other
\* content under the same sanitized name, is flagged against it.
C2_Witness ==
    /\ Answered
    /\ Len(results) = 2
    /\ results[1].status = "success"
    /\ results[2].status = "duplicate"
    /\ results[2].brief_id = results[1].brief_id
    /\ pdf_files[1].data # pdf_files[2].data

SameName(store, name) == { i \in 1..Len(store) : store[i].pdf_filename = name }
SameContent(store, bytes) ==
    { i \in 1..Len(store) : store[i].content_hash = calculate_pdf_hash(bytes) }

\* What check_duplicate answers when its lookups work, given the records the
\* filename is compared with.
AnswersByNameThenContent(named) ==
    LET answers == check_duplicate(briefs, filename, data, {}) IN
    IF named # {}
    THEN /\ answers # {}
         /\ \A d \in answers :
               d.is_duplicate /\ d.reason = MsgDupFilename /\ d.brief_id \in named
    ELSE IF SameContent(briefs, data) # {}
    THEN /\ answers # {}
         /\ \A d \in answers :
               d.is_duplicate /\ d.reason = MsgDupContent
               /\ d.brief_id \in SameContent(briefs, data)
    ELSE answers = {NotDuplicate}

\* C3 as the specification states it: whenever any record, of any owner, has
\* the filename, the answer is a duplicate by filename; otherwise a record
\* with the same fingerprint makes it a duplicate by content; otherwise it is
\* no duplicate.
C3_AsStated == pc = "dedup" => AnswersByNameThenContent(SameName(briefs, filename))

\* C3, amended: the same, for a filename that is not empty.  A filename that
\* sanitizes to the empty string is never compared: such a file is a
\* duplicate by content or no duplicate, whatever records have an empty
\* filename.
C3_NameThenContent ==
    pc = "dedup" =>
       AnswersByNameThenContent(IF filename = "" THEN {} ELSE SameName(briefs, filename))

\* A file was flagged by filename against the record of another user, whose
\* content differs.
C3_Witness ==
    /\ Answered
    /\ \E i \in 1..Len(results) :
          /\ results[i].status = "duplicate"
          /\ results[i].message = MsgDupFilename
          /\ results[i].filename # ""
          /\ briefs[results[i].brief_id].user_id # req.user
          /\ briefs[results[i].brief_id].content_hash # calculate_pdf_hash(pdf_files[i].data)

HashFaults == {"hashing", "hash_lookup"}
\* The faults of the duplicate check a step has just run, and whether its
\* filename lookup found a record.
FaultsOfCheck == trace'[Len(trace')].notes
NameFound ==
    "filename_lookup" \notin FaultsOfCheck /\ filename # "" /\ SameName(briefs, filename) # {}
\* Whether one of the faults was raised: the filename query runs for a
\* filename that is not empty, hashing and the hash query run when no record
\* was found by filename.
FaultRaised ==
    \/ "filename_lookup" \in FaultsOfCheck /\ filename # ""
    \/ FaultsOfCheck \cap HashFaults # {} /\ ~NameFound
Continues == pc' = "extract" /\ results' = results
FlaggedAs(reason, rows) ==
    /\ Len(results') = Len(results) + 1
    /\ results'[Len(results')].status = "duplicate"
    /\ results'[Len(results')].message = reason
    /\ results'[Len(results')].brief_id \in rows

StageRank(stage) ==
    CASE stage = "read"      -> 1
      [] stage = "dedup"     -> 2
      [] stage = "extract"   -> 3
      [] stage = "invoke"    -> 4
      [] stage = "rejected"  -> 4
      [] stage = "normalize" -> 5
      [] OTHER               -> 6
FileStages == {"read", "dedup", "extract", "invoke", "normalize", "persist"}
\* Files whose text layer is empty: extraction finds fewer than ten characters.
IsScan(f) == ByteLen(f.data) > 0 /\ ExtractedChars(f.data) < MinExtractedChars

Oversized(fs) ==
    \/ \E i \in 1..Len(fs) : ByteLen(fs[i].data) > MaxFileSize
    \/ SumSizes(fs) > MaxTotalSize

\* C6: a PDF submission with a file over 25 MB, or with files of more than
\* 100 MB together, is rejected as a whole: the request ends with the form
\* (or with Flask's 413) and no file of it is read, checked, sent to the
\* model or stored.
C6_SizeCaps ==
    req.source_type = "pdf" /\ Oversized(pdf_files) =>
       /\ trace = <<>>
       /\ results = <<>>
       /\ briefs = <<>>
       /\ pc \in {"sizes", "done"}
       /\ pc = "done" => /\ response.kind \in {"form", "413"}
                         /\ response.brief_id = NoId
                         /\ response.batch_results = <<>>

\* With no cap on the request body, a batch whose files are each within
\* 25 MB and together over 100 MB is rejected by the check of the total.
C6_Witness ==
    /\ maxContentLength = 0
    /\ pc = "done"
    /\ response.flash = MsgTotalTooBig
    /\ \A i \in 1..Len(pdf_files) : ByteLen(pdf_files[i].data) <= MaxFileSize

InvokesOf(i) ==
    { k \in 1..Len(trace) : trace[k].file = i /\ trace[k].stage = "invoke" }
RejectedAt(k) == k <= Len(trace) /\ trace[k].stage = "rejected"
\* A message that names a parameter as not supported.
NamesUnsupportedParameter(words) ==
    /\ "not supported" \in words
    /\ words \cap {"response_format", "max_tokens", "max_completion_tokens"} # {}
\* The file (or the text) ended with an error.
EndedInError(i) ==
    IF req.source_type = "pdf"
    THEN Len(results) >= i /\ results[i].status = "error"
    ELSE pc = "done" /\ response.kind = "form"

\* C7: one call of generate_research_brief sends at most two requests; the
\* second follows a rejection of the first whose message names a parameter
\* as not supported, and when the second is rejected too the call ends with
\* an error and sends nothing more.
C7_AtMostTwoRequests ==
    \A i \in 0..Len(pdf_files) :
       /\ Cardinality(InvokesOf(i)) <= 2
       /\ \A k, l \in InvokesOf(i) :
             k < l => /\ l = k + 2
                      /\ RejectedAt(k + 1)
                      /\ NamesUnsupportedParameter(trace[k + 1].notes)
                      /\ RejectedAt(l + 1) => EndedInError(i)
       /\ pc = "retry" /\ idx = i =>
             /\ Cardinality(InvokesOf(i)) = 1
             /\ RejectedAt(Len(trace))
             /\ NamesUnsupportedParameter(trace[Len(trace)].notes)

\* Two requests were sent for a document and both were rejected.
C7_Witness ==
    /\ pc = "done"
    /\ \E k \in 1..Len(trace) :
          /\ trace[k].stage = "invoke" /\ RejectedAt(k + 1)
          /\ k + 2 <= Len(trace) /\ trace[k + 2].stage = "invoke" /\ RejectedAt(k + 3)
          /\ trace[k + 2].params # trace[k].params
    /\ EndedInError(idx)

\* What the step that reads the response shows for an error.
ErrorShown(msg) ==
    IF req.source_type = "pdf"
    THEN results' = Append(results, Outcome(filename, "error", msg, NoId))
    ELSE response'.kind = "form" /\ response'.flash = msg
NothingReturned == briefData' = NoBrief /\ briefs' = briefs /\ pc' # "persist"

\* C8: a response whose finish reason is 'length' ends the call with the
\* token-limit error and one whose finish reason is 'content_filter' with
\* the filtered error, whatever the response holds; the two messages
\* differ, no brief data is returned and nothing is persisted for the
\* document.
C8_FinishReason ==
    /\ MsgLength # MsgFiltered
    /\ [][pc = "parse" /\ reply.choices /\ reply.finish \in {"length", "content_filter"} =>
            /\ ErrorShown(IF reply.finish = "length" THEN MsgLength ELSE MsgFiltered)
            /\ NothingReturned]_vars
    /\ [](\A i \in 1..Len(results) :
             results[i].message \in {MsgLength, MsgFiltered} =>
                results[i].status = "error" /\ "persist" \notin StagesOf(i))

\* A pasted text whose response was filtered: the form is shown with the
\* filtered error and the store is empty.
C8_Witness ==
    /\ req.source_type = "text"
    /\ pc = "done"
    /\ response.kind = "form"
    /\ response.flash = MsgFiltered
    /\ briefs = <<>>

\* The keys of the JSON document a reply holds: a document that is no object
\* has none.
KeysOf(c) == IF c.json = "object" THEN c.has ELSE {}

\* C9 as the specification states it: a reply that is no JSON ends the call
\* with the invalid-JSON error, and a reply that parses and lacks title,
\* citation or summary with the missing-field error that names the first of
\* them that is absent; no brief data is returned and no record is created.
C9_AsStated ==
    [][/\ pc = "parse"
       /\ reply.choices /\ reply.finish = "stop" /\ reply.message
       /\ \/ reply.content.text = "notjson"
          \/ reply.content.text = "json" /\ FirstMissing(KeysOf(reply.content)) # ""
       =>
       /\ ErrorShown(IF reply.content.text = "notjson" THEN MsgInvalidJson
                     ELSE MsgMissing(FirstMissing(KeysOf(reply.content))))
       /\ NothingReturned]_vars

\* The length of the source text of a file, or of the pasted text.
SourceCharsOf(i) ==
    IF req.source_type = "pdf" THEN ExtractedChars(pdf_files[i].data) ELSE req.chars

\* C10, the part that holds: the model is invoked only for a text or a PDF
\* whose source text has at least fifty characters; a shorter PDF text ends
\* with an error outcome and a shorter pasted text with the form, both
\* without an invocation; a manual entry goes through no stage of the
\* pipeline: no duplicate check and no invocation.
C10_ModelCalledOnLongText ==
    /\ \A k \in 1..Len(trace) :
          trace[k].stage = "invoke" =>
             /\ req.source_type \in {"text", "pdf"}
             /\ SourceCharsOf(trace[k].file) >= MinSourceChars
    /\ req.source_type = "manual" => trace = <<>> /\ pc = "done"
    /\ req.source_type = "text" /\ req.chars < MinSourceChars =>
          /\ trace = <<>>
          /\ pc \in {"extract", "done"}
          /\ pc = "done" => response.kind = "form"
    /\ req.source_type = "pdf" =>
          \A i \in 1..Len(results) :
             /\ ByteLen(pdf_files[i].data) > 0
             /\ SourceCharsOf(i) < MinSourceChars
             /\ results[i].status # "duplicate"
             => results[i].status = "error" /\ "invoke" \notin StagesOf(i)

\* C10 as the specification states it: every pasted text of fewer than fifty
\* characters, the empty one included, is answered with an error (a message
\* of the form or a flashed one) and no invocation.
C10_AsStated ==
    req.source_type = "text" /\ req.chars < MinSourceChars /\ pc = "done" =>
        /\ response.kind = "form"
        /\ response.flash # ""
        /\ trace = <<>>

\* An empty pasted text is answered with the bare form: no invocation and no
\* message.
C10_EmptyText ==
    /\ pc = "done"
    /\ req.source_type = "text"
    /\ req.chars = 0
    /\ response = Response("form", NoId, <<>>, "")
    /\ trace = <<>>

\* A PDF whose text has forty-nine characters ends with the too-short error.
C10_Witness ==
    /\ Answered
    /\ results # <<>>
    /\ results[1].message = MsgTooShort
    /\ SourceCharsOf(1) = MinSourceChars - 1
    /\ "invoke" \notin StagesOf(1)

\* ------------------------------------------------------------ summary text

\* A text is the sequence of its characters.  The words the code looks for
\* (the words of the section names) are single elements of the sequence;
\* BULLET stands for the bullet character U+2022.
QUOTE == "'"
DQUOTE == "\""
BULLET == "(bullet)"
NL == "\n"
SPACE == " "
COLON == ":"

\* str.strip() and \s: white space.
IsSpace(c) == c \in {SPACE, NL}

RECURSIVE lstrip(_)
lstrip(s) == IF s # <<>> /\ IsSpace(s[1]) THEN lstrip(Tail(s)) ELSE s
RECURSIVE rstrip(_)
rstrip(s) ==
    IF s # <<>> /\ IsSpace(s[Len(s)]) THEN rstrip(SubSeq(s, 1, Len(s) - 1)) ELSE s
strip(s) == rstrip(lstrip(s))

\* str.split('\n') and '\n'.join(lines)
RECURSIVE split(_)
split(s) ==
    IF \E i \in 1..Len(s) : s[i] = NL
    THEN LET i == CHOOSE k \in 1..Len(s) : s[k] = NL /\ \A j \in 1..(k - 1) : s[j] # NL
         IN  <<SubSeq(s, 1, i - 1)>> \o split(SubSeq(s, i + 1, Len(s)))
    ELSE <<s>>
RECURSIVE join(_)
join(lines) ==
    IF lines = <<>> THEN <<>>
    ELSE IF Len(lines) = 1 THEN lines[1]
    ELSE lines[1] \o <<NL>> \o join(Tail(lines))

\* The place of the first c in s after place i, 0 when there is none.
NextAt(s, c, i) ==
    IF \E k \in (i + 1)..Len(s) : s[k] = c
    THEN CHOOSE k \in (i + 1)..Len(s) : s[k] = c /\ \A j \in (i + 1)..(k - 1) : s[j] # c
    ELSE 0

\* re.sub(r"^['\"]|['\"]$", '', s) with the quote characters qs: one quote
\* off the start and one off the end of a text of one line.
Unquote(s, qs) ==
    LET t == IF s # <<>> /\ s[1] \in qs THEN Tail(s) ELSE s
    IN  IF t # <<>> /\ t[Len(t)] \in qs THEN SubSeq(t, 1, Len(t) - 1) ELSE t

\* openai_service.py:355: re.sub(r"'([^']+)':", r'\1:', s).  A quote, the
\* characters up to the next quote (at least one), that quote and a colon
\* become the characters and the colon; matches are taken left to right.
RECURSIVE UnquoteHeaders(_)
UnquoteHeaders(s) ==
    IF s = <<>> THEN <<>>
    ELSE LET j == IF s[1] = QUOTE THEN NextAt(s, QUOTE, 1) ELSE 0 IN
         IF j >= 3 /\ j < Len(s) /\ s[j + 1] = COLON
         THEN SubSeq(s, 2, j - 1) \o <<COLON>> \o UnquoteHeaders(SubSeq(s, j + 2, Len(s)))
         ELSE <<s[1]>> \o UnquoteHeaders(Tail(s))

\* What ([^']+) holds after a greedy \s*: the text without its leading white
\* space, or its last character when it is white space only.
AfterSpaces(t) == IF lstrip(t) = <<>> THEN <<t[Len(t)]>> ELSE lstrip(t)

\* openai_service.py:357-358: re.sub(r"'\s*M\s*([^']+)'", r'(bullet) \1', s)
\* for the marker M: a quoted item that starts with the marker becomes a
\* bullet item without the quotes.
RECURSIVE UnquoteItems(_, _)
UnquoteItems(s, marker) ==
    IF s = <<>> THEN <<>>
    ELSE LET j    == IF s[1] = QUOTE THEN NextAt(s, QUOTE, 1) ELSE 0
             seg  == IF j > 0 THEN lstrip(SubSeq(s, 2, j - 1)) ELSE <<>>
             hit  == Len(seg) >= 2 /\ seg[1] = marker
         IN  IF hit
             THEN <<BULLET, SPACE>> \o AfterSpaces(Tail(seg))
                    \o UnquoteItems(SubSeq(s, j + 1, Len(s)), marker)
             ELSE <<s[1]>> \o UnquoteItems(Tail(s), marker)

\* openai_service.py:360: re.sub(r"^'|'$", '', s, flags=re.MULTILINE): one
\* quote off the start and one off the end of every line.
RECURSIVE UnquoteEach(_)
UnquoteEach(lines) ==
    IF lines = <<>> THEN <<>>
    ELSE <<Unquote(lines[1], {QUOTE})>> \o UnquoteEach(Tail(lines))
UnquoteLines(s) == join(UnquoteEach(split(s)))

\* The section names, spelled as texts.
KeyFindings == <<"Key", SPACE, "Findings">>
MainPoints == <<"Main", SPACE, "Points">>
Methodology == <<"Methodology">>
Approach == <<"Approach">>
Conclusions == <<"Conclusions">>
Recommendations == <<"Recommendations">>
MethodologyApproach == <<"Methodology", "/", "Approach">>
ConclusionsRecommendations == <<"Conclusions", "/", "Recommendations">>

\* openai_service.py:299-300
section_order ==
    <<KeyFindings, MainPoints, MethodologyApproach, Methodology, Approach,
      ConclusionsRecommendations, Conclusions, Recommendations>>
\* openai_service.py:374-376
section_headers ==
    <<KeyFindings, MainPoints, Methodology, Approach, Conclusions, Recommendations,
      MethodologyApproach, ConclusionsRecommendations>>

Markers == {BULLET, "-", "*"}
Quotes == {QUOTE, DQUOTE}

\* openai_service.py:382-383: the line starts with the name, bare or quoted.
StartsAsHeader(line, header) ==
    \/ startswith(line, header)
    \/ startswith(line, <<QUOTE>> \o header \o <<QUOTE>>)
    \/ startswith(line, <<DQUOTE>> \o header \o <<DQUOTE>>)

\* openai_service.py:380-387: the first name of section_headers the line
\* starts with, <<>> when it starts with none.
clean_header(line) ==
    IF \E i \in 1..Len(section_headers) : StartsAsHeader(line, section_headers[i])
    THEN section_headers[CHOOSE i \in 1..Len(section_headers) :
                            /\ StartsAsHeader(line, section_headers[i])
                            /\ \A j \in 1..(i - 1) : ~StartsAsHeader(line, section_headers[j])]
    ELSE <<>>

\* openai_service.py:396:
\* re.sub(r"^\s*['\"]\s*(bullet)\s*|^\s*(bullet)\s*['\"]", '(bullet) ', line)
CleanBullet(line) ==
    LET a == lstrip(line)
        b == IF a # <<>> THEN lstrip(Tail(a)) ELSE <<>>
    IN  IF a # <<>> /\ a[1] \in Quotes /\ b # <<>> /\ b[1] = BULLET
        THEN <<BULLET, SPACE>> \o lstrip(Tail(b))
        ELSE IF a # <<>> /\ a[1] = BULLET /\ b # <<>> /\ b[1] \in Quotes
        THEN <<BULLET, SPACE>> \o Tail(b)
        ELSE line

\* openai_service.py:402 and :406: the text after its leading run of markers
\* and white space.
RECURSIVE AfterMarkers(_)
AfterMarkers(s) ==
    IF s # <<>> /\ (s[1] \in Markers \/ IsSpace(s[1])) THEN AfterMarkers(Tail(s)) ELSE s

\* openai_service.py:366-407: what one line of a summary of several lines
\* becomes.
FormatLine(original_line) ==
    LET line == strip(original_line) IN
    IF line = <<>> THEN <<>>
    ELSE IF clean_header(line) # <<>> THEN clean_header(line) \o <<COLON>>
    ELSE LET l == strip(CleanBullet(Unquote(line, Quotes))) IN
         IF l = <<>> \/ l[1] \notin Markers
         THEN <<BULLET, SPACE>> \o AfterMarkers(l)
         ELSE <<BULLET, SPACE>> \o AfterMarkers(l)

RECURSIVE FormatLines(_)
FormatLines(lines) ==
    IF lines = <<>> THEN <<>> ELSE <<FormatLine(lines[1])>> \o FormatLines(Tail(lines))

\* openai_service.py:412: re.sub(r'\n{2,}', '\n', s)
RECURSIVE CollapseNewlines(_)
CollapseNewlines(s) ==
    IF Len(s) < 2 THEN s
    ELSE IF s[1] = NL /\ s[2] = NL THEN CollapseNewlines(Tail(s))
    ELSE <<s[1]>> \o CollapseNewlines(Tail(s))

\* openai_service.py:416-421: a summary of one line.
SingleLine(summary_text) ==
    LET text == Unquote(strip(summary_text), Quotes) IN
    IF text # <<>> /\ text[1] # BULLET THEN <<BULLET, SPACE>> \o text ELSE text

\* openai_service.py:355-360
Artifacts(s) ==
    UnquoteLines(UnquoteItems(UnquoteItems(UnquoteHeaders(s), BULLET), "-"))

\* openai_service.py:349-421: the cleanup of the summary text.
Cleanup(s) ==
    LET summary_text == Artifacts(s) IN
    IF \E i \in 1..Len(summary_text) : summary_text[i] = NL
    THEN strip(CollapseNewlines(join(FormatLines(split(summary_text)))))
    ELSE SingleLine(summary_text)

\* ------------------------------------------------- the value of 'summary'

\* brief_data['summary'] as json.loads returns it: a string, a list of
\* strings, a dict (its entries in the order of the document; a value is a
\* string, a list of strings or another value, given by its str()), or
\* another value.
Str(text) == [kind |-> "str", text |-> text]
List(items) == [kind |-> "list", items |-> items]
Other(text) == [kind |-> "other", text |-> text]
Entry(key, value) == [key |-> key, value |-> value]
Dict(entries) == [kind |-> "dict", entries |-> entries]

Bulleted(text) == <<BULLET, SPACE>> \o text

\* openai_service.py:310-314 and :333-336: the items of a list.
RECURSIVE ListItems(_)
ListItems(items) ==
    IF items = <<>> THEN <<>>
    ELSE <<Bulleted(Unquote(strip(items[1]), Quotes))>> \o ListItems(Tail(items))

\* openai_service.py:317-324: the lines of a string under a known section.
RECURSIVE StringItems(_)
StringItems(lines) ==
    IF lines = <<>> THEN <<>>
    ELSE LET line == strip(lines[1])
             item == Unquote(line, Quotes)
         IN  (IF line = <<>> THEN <<>>
              ELSE IF startswith(item, <<BULLET>>) THEN <<item>>
              ELSE <<Bulleted(item)>>) \o StringItems(Tail(lines))

\* openai_service.py:303-324: the known sections, in the order of section_order.
RECURSIVE KnownSections(_, _)
KnownSections(entries, i) ==
    IF i > Len(section_order) THEN <<>>
    ELSE LET found == { k \in 1..Len(entries) : entries[k].key = section_order[i] }
             value == entries[CHOOSE k \in found : TRUE].value
         IN  (IF found = {} THEN <<>>
              ELSE <<section_order[i] \o <<COLON>>>> \o
                   (IF value.kind = "list" THEN ListItems(value.items)
                    ELSE IF value.kind = "str" THEN StringItems(split(value.text))
                    ELSE <<>>))
             \o KnownSections(entries, i + 1)

\* openai_service.py:329-340: the other keys, in the order of the dict.
RECURSIVE OtherSections(_)
OtherSections(entries) ==
    IF entries = <<>> THEN <<>>
    ELSE LET e == entries[1] IN
         (IF \E i \in 1..Len(section_order) : section_order[i] = e.key THEN <<>>
          ELSE <<e.key \o <<COLON>>>> \o
               (IF e.value.kind = "list" THEN ListItems(e.value.items)
                ELSE <<Bulleted(Unquote(strip(e.value.text), Quotes))>>))
         \o OtherSections(Tail(entries))

\* openai_service.py:345: the items of a summary that is a list.
RECURSIVE ListLines(_)
ListLines(items) ==
    IF items = <<>> THEN <<>>
    ELSE <<IF startswith(items[1], <<BULLET>>) THEN items[1] ELSE Bulleted(items[1])>>
         \o ListLines(Tail(items))

\* openai_service.py:295-347: the summary as one text.
Flatten(value) ==
    CASE value.kind = "dict" ->
            strip(join(KnownSections(value.entries, 1) \o OtherSections(value.entries)))
      [] value.kind = "list" -> join(ListLines(value.items))
      [] OTHER -> value.text

\* openai_service.py:295-421
Normalize(value) == Cleanup(Flatten(value))

\* ------------------------------------------------ normalizing a summary

\* The characters the texts under test are spelled with: the quotes, the
\* markers, white space, the colon, a letter and words of section names.
Alphabet ==
    {QUOTE, DQUOTE, BULLET, "-", "*", SPACE, COLON, NL, "x", "Approach", "Methodology", "/"}

\* Summaries of several lines about the section names: every name as a
\* header, bare and quoted, over one item, and a sentence that begins with
\* the word of a name.
HeaderTexts ==
    UNION { { section_order[i] \o <<COLON, NL, "-", SPACE, "x">>,
              <<QUOTE>> \o section_order[i] \o <<QUOTE, COLON, NL, "x">>,
              <<DQUOTE>> \o section_order[i] \o <<DQUOTE, NL, BULLET, "x">>,
              section_order[i] \o <<SPACE, "x", NL, "y">> } : i \in 1..Len(section_order) }

\* Summaries of one line.
LineTexts ==
    { <<"x", SPACE, "y">>, <<"-", SPACE, "x", SPACE, "y">>, <<"*", "x", SPACE, "y">>,
      <<BULLET, SPACE, "x", SPACE, "y">>, <<DQUOTE, "x", SPACE, "y", DQUOTE>>,
      <<"x", SPACE, DQUOTE, "y", DQUOTE>> }

\* Summaries of two lines with a quoted item that spans both.
QuotedItemTexts ==
    { <<m, QUOTE, n, NL, "x", QUOTE>> : m \in {"-", "*"}, n \in {"-", BULLET} }

\* The items of a section or of a list, and the values of a section.
Items == { <<"x">>, <<"y">>, <<"-", SPACE, "x">> }
SectionValues ==
    { List(items) : items \in SeqsUpTo(Items, MaxItems) \cup {<<>>} } \cup
    { Str(<<"x", NL, BULLET, SPACE, "y">>), Other(<<"x">>) }
SectionKeys == { section_order[i] : i \in 1..Len(section_order) } \cup { <<"x">> }

Entries ==
    { es \in SeqsUpTo(SectionKeys \X SectionValues, MaxSections) \cup {<<>>} :
         \A i, j \in 1..Len(es) : i # j => es[i][1] # es[j][1] }
Summaries ==
    { Str(t) : t \in SeqsUpTo(Alphabet, MaxChars) \cup {<<>>} \cup HeaderTexts \cup LineTexts
                         \cup QuotedItemTexts } \cup
    { List(items) : items \in SeqsUpTo(Items, MaxItems) \cup {<<>>} } \cup
    { Dict([i \in 1..Len(es) |-> Entry(es[i][1], es[i][2])]) : es \in Entries } \cup
    { Other(<<"x">>) }

\* No request is in flight and none will come.
RequestIdle ==
    /\ scenario = "none"
    /\ maxContentLength = MAX_CONTENT_LENGTH
    /\ apiKey = TRUE
    /\ envModel = DefaultModel
    /\ faultsLeft = 0
    /\ reqsLeft = 0
    /\ pc = "idle"
    /\ req = NoRequest
    /\ idx = 0
    /\ results = <<>>
    /\ response = NoResponse
    /\ filename = NULL
    /\ data = NULL
    /\ sourceChars = -1
    /\ params = EmptyParams
    /\ reply = NoReply
    /\ briefData = NoBrief
    /\ trace = <<>>
PipelineIdle == RequestIdle /\ briefs = <<>>

\* openai_service.py:278-293: the reply is parsed and has its three fields.
NormInit ==
    /\ PipelineIdle
    /\ TaggingIdle
    /\ LibraryIdle
    /\ given \in Summaries
    /\ summary = given
    /\ step = "parsed"

\* openai_service.py:295-347
FlattenSummary ==
    /\ step = "parsed"
    /\ summary' = Flatten(summary)
    /\ step' = "flat"
    /\ UNCHANGED <<pipeline, tagging, library, given>>

\* openai_service.py:349-421
CleanupSummary ==
    /\ step = "flat"
    /\ summary' = Cleanup(summary)
    /\ step' = "clean"
    /\ UNCHANGED <<pipeline, tagging, library, given>>

NormNext == FlattenSummary \/ CleanupSummary

NormSpec == NormInit /\ [][NormNext]_vars

\* ------------------------------------------- claims about the normalizer

\* The text the cleanup starts from, and its non-blank lines after the
\* quoting artifacts are removed (openai_service.py:355-363).
FlatText == Flatten(given)
SeveralLines == \E i \in 1..Len(Artifacts(FlatText)) : Artifacts(FlatText)[i] = NL
InLines == SelectSeq(split(Artifacts(FlatText)), LAMBDA l : strip(l) # <<>>)
OutLines == split(summary)

\* A line without its surrounding white space and quotes and its trailing
\* colon.
DropColon(l) == IF l # <<>> /\ l[Len(l)] = COLON THEN SubSeq(l, 1, Len(l) - 1) ELSE l
Bare(l) == strip(Unquote(strip(DropColon(strip(Unquote(strip(l), Quotes)))), Quotes))
IsHeaderName(l) == \E i \in 1..Len(section_order) : section_order[i] = l

\* The text of a line: its characters but quotes, markers and white space.
Letters(l) == SelectSeq(l, LAMBDA c : c \notin Quotes \cup Markers \cup {SPACE, NL})

\* C11 as the specification states it: in a summary of several lines, a line
\* that is a section name (but for quotes, white space and a trailing colon)
\* comes out as that name and a colon, and every other non-blank line comes
\* out as a content line with all of its text.
C11_AsStated ==
    step = "clean" /\ SeveralLines /\ InLines # <<>> =>
        /\ Len(OutLines) = Len(InLines)
        /\ \A i \in 1..Len(InLines) :
              IF IsHeaderName(Bare(InLines[i]))
              THEN OutLines[i] = Bare(InLines[i]) \o <<COLON>>
              ELSE /\ startswith(OutLines[i], <<BULLET>>)
                   /\ Letters(OutLines[i]) = Letters(InLines[i])

\* The section 'Methodology/Approach' of a mapping comes out under the
\* header 'Methodology:'.
C11_Renamed ==
    /\ step = "clean"
    /\ given = Dict(<<Entry(MethodologyApproach, List(<<<<"x">>>>))>>)
    /\ summary = Methodology \o <<COLON, NL, BULLET, SPACE, "x">>

\* A line that is a section name and a colon, and one that begins with
\* exactly one marker: the bullet and a space, then no further marker.
IsHeaderLine(l) == l # <<>> /\ l[Len(l)] = COLON /\ IsHeaderName(SubSeq(l, 1, Len(l) - 1))
IsBulletLine(l) ==
    /\ startswith(l, <<BULLET, SPACE>>)
    /\ Len(l) >= 3 => l[3] \notin Markers \cup {SPACE}
GivenSeveralLines == \E i \in 1..Len(FlatText) : FlatText[i] = NL

\* C12 as the specification states it: every line of the normalized form of
\* a summary of several lines is a section name with a colon or begins with
\* exactly one bullet marker, and none is empty.
C12_AsStated ==
    step = "clean" /\ GivenSeveralLines /\ summary # <<>> =>
        \A i \in 1..Len(OutLines) : IsHeaderLine(OutLines[i]) \/ IsBulletLine(OutLines[i])

\* A summary of two lines comes out as one line with two markers.
C12_TwoMarkers ==
    /\ step = "clean"
    /\ given = Str(<<"-", QUOTE, "-", NL, "x", QUOTE>>)
    /\ summary = <<BULLET, SPACE, "-", BULLET, SPACE, "x">>

\* The items of a section: the elements of a list, the non-blank lines of a
\* string; another value is one item under an unrecognized key and none
\* under a known one (openai_service.py:309-324, :332-340).
ItemsOf(e) ==
    IF e.value.kind = "list" THEN e.value.items
    ELSE IF e.value.kind = "str"
    THEN SelectSeq(split(e.value.text), LAMBDA l : strip(l) # <<>>)
    ELSE IF IsHeaderName(e.key) THEN <<>> ELSE <<e.value.text>>

\* The sections of a mapping in the order the specification gives: the known
\* names in the order of section_order, then the other keys in the order of
\* the mapping.
RECURSIVE KnownInOrder(_, _)
KnownInOrder(entries, i) ==
    IF i > Len(section_order) THEN <<>>
    ELSE SelectSeq(entries, LAMBDA e : e.key = section_order[i]) \o KnownInOrder(entries, i + 1)
InOrder(entries) ==
    KnownInOrder(entries, 1) \o SelectSeq(entries, LAMBDA e : ~IsHeaderName(e.key))

\* The lines expected for the sections: the header of a section and, after
\* it, one line for each of its items.
Header(key) == [header |-> TRUE, text |-> key \o <<COLON>>]
Item(text) == [header |-> FALSE, text |-> text]
RECURSIVE ItemLines(_)
ItemLines(items) ==
    IF items = <<>> THEN <<>> ELSE <<Item(items[1])>> \o ItemLines(Tail(items))
RECURSIVE SectionLines(_)
SectionLines(entries) ==
    IF entries = <<>> THEN <<>>
    ELSE <<Header(entries[1].key)>> \o ItemLines(ItemsOf(entries[1]))
           \o SectionLines(Tail(entries))

\* C13 as the specification states it: a summary that is a mapping comes out
\* as its sections in the fixed order of the known names followed by the
\* other keys in the order of the mapping, each as its header line followed
\* at once by its items as bullet lines in their order, with no blank line.
C13_AsStated ==
    step = "clean" /\ given.kind = "dict" /\ given.entries # <<>> =>
        LET expected == SectionLines(InOrder(given.entries)) IN
        /\ Len(OutLines) = Len(expected)
        /\ \A i \in 1..Len(expected) :
              IF expected[i].header THEN OutLines[i] = expected[i].text
              ELSE /\ IsBulletLine(OutLines[i])
                   /\ Letters(OutLines[i]) = Letters(expected[i].text)

\* The header of an unrecognized key comes out as a bullet item under the
\* section before it.
C13_KeyAsItem ==
    /\ step = "clean"
    /\ given = Dict(<<Entry(<<"x">>, List(<<<<"y">>>>)), Entry(KeyFindings, List(<<<<"x">>>>))>>)
    /\ summary = KeyFindings \o <<COLON, NL, BULLET, SPACE, "x", NL,
                                  BULLET, SPACE, "x", COLON, NL, BULLET, SPACE, "y">>

\* C14 as the specification states it: the cleanup leaves its own output
\* unchanged.
C14_AsStated == step = "clean" => Cleanup(summary) = summary

\* The cleanup of a one-line summary that ends with two double quotes takes
\* one of them off, and its cleanup takes off the other.
C14_SecondQuote ==
    /\ step = "clean"
    /\ given = Str(<<"x", DQUOTE, DQUOTE>>)
    /\ summary = <<BULLET, SPACE, "x", DQUOTE>>
    /\ Cleanup(summary) = <<BULLET, SPACE, "x">>

\* C18 as the specification states it: a summary of one line comes out as
\* the bullet marker followed by its text, and one that starts with a marker
\* ('-', '*' or the bullet) comes out with that one marker only.
C18_AsStated ==
    step = "clean" /\ ~GivenSeveralLines /\ strip(FlatText) # <<>> =>
        /\ Len(OutLines) = 1
        /\ Letters(summary) = Letters(FlatText)
        /\ IF strip(FlatText)[1] \in Markers
           THEN summary = strip(FlatText) \/ IsBulletLine(summary)
           ELSE startswith(summary, <<BULLET, SPACE>>)

\* A one-line summary that starts with '-' is given a second marker.
C18_SecondMarker ==
    /\ step = "clean"
    /\ given = Str(<<"-", SPACE, "x", SPACE, "y">>)
    /\ summary = <<BULLET, SPACE, "-", SPACE, "x", SPACE, "y">>

\* ------------------------------------------ claims about the fields

\* C15 as the specification states it: a title of more than 500 characters
\* or a citation of more than 1000 is reported as an error of that field and
\* never stored: no row holds a title or a citation over its length.
C15_AsStated ==
    \A i \in 1..Len(briefs) :
        /\ briefs[i].title <= MaxTitleLength
        /\ briefs[i].citation <= MaxCitationLength

\* The reply carried a title of 501 characters and the request ended with
\* the record created, the title stored whole.
C15_LongTitleStored ==
    /\ pc = "done"
    /\ response.kind = "redirect"
    /\ briefs # <<>>
    /\ briefs[Len(briefs)].id = response.brief_id
    /\ briefs[Len(briefs)].title = MaxTitleLength + 1

\* The places of the trace where the first request of a call was sent.
FirstInvokes ==
    { k \in 1..Len(trace) :
         /\ trace[k].stage = "invoke"
         /\ \A j \in 1..(k - 1) : ~(trace[j].stage = "invoke" /\ trace[j].file = trace[k].file) }

\* The families the specification lists: GPT-5, GPT-4.1, GPT-4o, GPT-4-turbo
\* with a preview or date suffix, gpt-4-0125-preview and gpt-3.5-turbo-0125.
AllowListed(m) ==
    LET id == ModelChars(m) IN
    \/ contains(id, Gpt5)
    \/ contains(id, Gpt41)
    \/ contains(id, Gpt4o)
    \/ startswith(id, Gpt4Turbo \o <<"-">>)
    \/ id = Gpt4 \o <<"-", "0", "1", "2", "5">> \o Preview
    \/ id = Gpt35Turbo \o <<"-", "0", "1", "2", "5">>

\* C16 as the specification states it: the first request of a call carries
\* response_format exactly when the model id is of an allow-listed family;
\* the undated 'gpt-4-turbo' is not.
C16_AsStated ==
    \A k \in FirstInvokes :
        "response_format" \in DOMAIN trace[k].params <=> AllowListed(envModel)

\* The first request for the default model 'gpt-4-turbo' carried
\* response_format.
C16_DefaultModelJsonMode ==
    /\ envModel = DefaultModel
    /\ \E k \in FirstInvokes : "response_format" \in DOMAIN trace[k].params

\* The rejection that ended the call for file i (0 for a text): the last
\* entry of the trace for i is a rejection and no retry is due.
FinalRejection(i) ==
    LET ks == { k \in 1..Len(trace) : trace[k].file = i } IN
    IF ks = {} THEN 0
    ELSE LET k == CHOOSE m \in ks : \A n \in ks : n <= m IN
         IF trace[k].stage = "rejected" /\ ~(pc = "retry" /\ idx = i) THEN k ELSE 0

\* The failure condition an entry of the trace stands for.
ConditionOf(ev) ==
    LET quota == "quota" \in ev.notes \/ "insufficient_quota" \in ev.notes IN
    CASE ev.cls = "AuthenticationError"         -> "invalid credentials"
      [] ev.cls = "RateLimitError" /\ quota     -> "quota exhausted"
      [] ev.cls = "RateLimitError" /\ ~quota    -> "rate limited"
      [] ev.cls = "APIConnectionError"          -> "connection failure"
      [] ev.cls = "APITimeoutError"             -> "request timeout"
      [] OTHER                                  -> "other"

\* The message the handler written for a failure condition returns.
OwnMessage(condition) ==
    CASE condition = "invalid credentials" -> MsgAuth
      [] condition = "quota exhausted"     -> MsgQuota
      [] condition = "rate limited"        -> MsgRateLimit
      [] condition = "connection failure"  -> MsgConnection
      [] OTHER                             -> MsgTimeout

\* The error message reported for file i, or for the text.
ReportedMessage(i) ==
    IF req.source_type = "pdf" THEN results[i].message ELSE response.flash

\* C17 as the specification states it: each of the five failure conditions
\* of the model call is reported with its own message, which is none of the
\* other four and not the generic API-error message.
C17_AsStated ==
    \A i \in 0..Len(pdf_files) :
        LET k == FinalRejection(i) IN
        k # 0 /\ ConditionOf(trace[k]) # "other" =>
            /\ EndedInError(i)
            /\ ReportedMessage(i) = OwnMessage(ConditionOf(trace[k]))
            /\ ReportedMessage(i) # MsgApiError

\* A request timed out and the generic API-error message was reported.
C17_TimeoutReportedAsApiError ==
    \E i \in 0..Len(pdf_files) :
        LET k == FinalRejection(i) IN
        /\ k # 0
        /\ ConditionOf(trace[k]) = "request timeout"
        /\ EndedInError(i)
        /\ ReportedMessage(i) = MsgApiError

\* -------------------------------------------------------------------- tags

\* A tag input is a sequence of characters; LongWord and HugeWord stand for
\* runs of 101 and of 501 lowercase letters.
COMMA == ","
LongWord == "(101 letters)"
HugeWord == "(501 letters)"
RECURSIVE len(_)
len(s) ==
    IF s = <<>> THEN 0
    ELSE (CASE s[1] = LongWord -> MaxTagNameLength + 1
            [] s[1] = HugeWord -> MaxTagsInputLength + 1
            [] OTHER           -> 1) + len(Tail(s))

\* str.lower()
lower(s) ==
    [i \in 1..Len(s) |-> CASE s[i] = "A" -> "a"
                           [] s[i] = "B" -> "b"
                           [] OTHER      -> s[i]]

\* str.split(','): the fragments between the commas.
RECURSIVE split_commas(_)
split_commas(s) ==
    LET at == { i \in 1..Len(s) : s[i] = COMMA } IN
    IF at = {} THEN <<s>>
    ELSE LET i == CHOOSE k \in at : \A j \in at : k <= j IN
         <<SubSeq(s, 1, i - 1)>> \o split_commas(SubSeq(s, i + 1, Len(s)))

Elements(f) == { f[i] : i \in DOMAIN f }

\* research.py:395-403: tag_input and new_tag_names.
new_tag_names(tags_data) ==
    LET tag_input == strip(tags_data) IN
    IF tag_input = <<>> THEN {}
    ELSE { lower(strip(tag)) :
             tag \in { t \in Elements(split_commas(tag_input)) : strip(t) # <<>> } }

\* Tag.query.filter_by(name=...).first(): the id of a tag of that name,
\* NoId for None.
filter_by_name(store, name) ==
    LET hits == { i \in 1..Len(store) : store[i] = name } IN
    IF hits = {} THEN NoId ELSE CHOOSE i \in hits : TRUE

\* What makes the store refuse a new row of the tags table (tag.py:10): the
\* name is taken (unique=True), or it is longer than String(100) and the
\* engine enforces the length (PostgreSQL does, SQLite does not).
TagRefused(store, name, engine) ==
    \/ name \in Elements(store)
    \/ engine = "postgresql" /\ len(name) > MaxTagNameLength

Found(store, tag, error) == [tags |-> store, tag |-> tag, error |-> error]
MsgEmptyTag == "Tag name cannot be empty"
MsgTagRefused == "the store refused the tag"

\* BaseModel.safe_create for a tag: the row is stored whole, with the next
\* id, or not at all and the error is returned.
Tag_safe_create(store, name, engine) ==
    IF TagRefused(store, name, engine)
    THEN Found(store, NoId, MsgTagRefused)
    ELSE Found(Append(store, name), Len(store) + 1, "")

\* find_or_create_by_name without the normalization of tag.py:28: the name
\* is looked up and stored as it was passed.
FindOrCreateAsPassed(store, tag_name, engine) ==
    LET tag == filter_by_name(store, tag_name) IN
    IF tag_name = <<>> THEN Found(store, NoId, MsgEmptyTag)
    ELSE IF tag # NoId THEN Found(store, tag, "")
    ELSE Tag_safe_create(store, tag_name, engine)

\* tag.py:23-52
find_or_create_by_name(store, tag_name, engine) ==
    LET normalized_name == lower(strip(tag_name))
        tag == filter_by_name(store, normalized_name)
    IN
    IF normalized_name = <<>> THEN Found(store, NoId, MsgEmptyTag)
    ELSE IF tag # NoId THEN Found(store, tag, "")
    ELSE Tag_safe_create(store, normalized_name, engine)

Tagged(store, links, ok) == [tags |-> store, links |-> links, ok |-> ok]

\* research_brief.py:136-153
add_tag(store, links, brief, tag_name, engine) ==
    LET found == find_or_create_by_name(store, tag_name, engine) IN
    IF found.error # "" \/ found.tag = NoId
    THEN Tagged(found.tags, links, FALSE)
    ELSE Tagged(found.tags, links \cup {<<brief, found.tag>>}, TRUE)

\* research_brief.py:155-171
remove_tag(store, links, brief, tag_name) ==
    LET normalized_name == lower(strip(tag_name))
        tag == filter_by_name(store, normalized_name)
    IN
    Tagged(store, links \ {<<brief, tag>>}, TRUE)

\* research_brief.py:173-180, as the set research.py:398 makes of it.
get_tag_names(store, links, brief) ==
    { store[link[2]] : link \in { l \in links : l[1] = brief } }

\* research_brief.py:66-73: the id of the record when it is the user's.
find_by_id_and_user(store, brief_id, user_id) ==
    IF brief_id \in 1..Len(store) /\ store[brief_id].user_id = user_id
    THEN brief_id ELSE NoId

\* The orders in which a loop may run over a set.
Orders(S) == { f \in [1..Cardinality(S) -> S] : Elements(f) = S }

\* research.py:406-408: add_tag for each name, results ignored.
RECURSIVE AddEach(_, _, _, _, _)
AddEach(store, links, brief, names, engine) ==
    IF names = <<>> THEN Tagged(store, links, TRUE)
    ELSE LET done == add_tag(store, links, brief, Head(names), engine) IN
         AddEach(done.tags, done.links, brief, Tail(names), engine)

\* research.py:411-413: remove_tag for each name, results ignored.
RECURSIVE RemoveEach(_, _, _, _)
RemoveEach(store, links, brief, names) ==
    IF names = <<>> THEN Tagged(store, links, TRUE)
    ELSE LET done == remove_tag(store, links, brief, Head(names)) IN
         RemoveEach(done.tags, done.links, brief, Tail(names))

\* ------------------------------------------------------------ editing tags

\* The tag names callers pass, and the tag inputs of the edit form: nothing,
\* blanks, one name, several names with commas between, empty fragments, and
\* an input over the limit of the form.
TagNames ==
    { <<>>, <<"a">>, <<SPACE, "A", SPACE>>, <<"B">>, <<LongWord>> }
TagInputs ==
    { <<>>, <<SPACE>>, <<"a">>, <<SPACE, "A", SPACE>>, <<"A", COMMA, SPACE, "B">>,
      <<"b", COMMA, COMMA>>, <<LongWord>>, <<LongWord, COMMA, "a">>,
      <<"a", COMMA, "b", COMMA, LongWord>>, <<HugeWord>> }

\* The lengths of the title and of the citation the edit form submits.
EditedTitle == 1
EditedCitation == 1

MsgNotFound == "Research brief not found or you do not have permission to edit it."
MsgNotUpdated == "Error updating brief"
MsgUpdated == "Research brief updated successfully!"
\* The input of a call that ended before it read the tags of the form.
NotRead == <<>>
\* What add_tag and remove_tag return first: True or False.
Returned(ok) == IF ok THEN "True" ELSE "False"

\* Two users have entered a brief each (research.py:137-163); no tag exists.
TagInit ==
    /\ RequestIdle
    /\ NormalizerIdle
    /\ LibraryIdle
    /\ briefs = safe_create(safe_create(<<>>, 1, 1, 1, "manual", NULL, NULL, NULL, "ChatGPT"),
                            2, 1, 1, "manual", NULL, NULL, NULL, "ChatGPT")
    /\ tags = <<>>
    /\ research_brief_tags = {}
    /\ database \in {"sqlite", "postgresql"}
    /\ call = NoCall

request == <<scenario, maxContentLength, apiKey, envModel, faultsLeft, reqsLeft,
             pc, req, idx, results, response, filename, data, sourceChars,
             params, reply, briefData, trace>>

\* research_brief.py:136-153, as research.py:26 calls it on a record.
AddTag(brief, tag_name) ==
    LET done == add_tag(tags, research_brief_tags, brief, tag_name, database) IN
    /\ tags' = done.tags
    /\ research_brief_tags' = done.links
    /\ call' = Call("add_tag", NoId, brief, tag_name, Returned(done.ok))
    /\ UNCHANGED <<request, briefs, normalizer, library, database>>

\* research_brief.py:155-171
RemoveTag(brief, tag_name) ==
    LET done == remove_tag(tags, research_brief_tags, brief, tag_name) IN
    /\ tags' = done.tags
    /\ research_brief_tags' = done.links
    /\ call' = Call("remove_tag", NoId, brief, tag_name, Returned(done.ok))
    /\ UNCHANGED <<request, briefs, normalizer, library, database>>

\* research.py:362-428, a POST: the record must be the user's and the form
\* valid (forms/research.py:215-224); brief.safe_update stores the fields or
\* fails whole; then the tags are reconciled and success is reported.
ResearchEdit(user, id, tags_data) ==
    LET brief == find_by_id_and_user(briefs, id, user) IN
    /\ UNCHANGED <<request, normalizer, library, database>>
    /\ IF brief = NoId
       THEN /\ call' = Call("research_edit", user, id, NotRead, MsgNotFound)
            /\ UNCHANGED <<briefs, tags, research_brief_tags>>
       ELSE IF strip(tags_data) # <<>> /\ len(tags_data) > MaxTagsInputLength
       THEN /\ call' = Call("research_edit", user, id, tags_data, "form errors")
            /\ UNCHANGED <<briefs, tags, research_brief_tags>>
       ELSE \E updated \in BOOLEAN :
              IF ~updated
              THEN /\ call' = Call("research_edit", user, id, NotRead, MsgNotUpdated)
                   /\ UNCHANGED <<briefs, tags, research_brief_tags>>
              ELSE LET current_tag_names == get_tag_names(tags, research_brief_tags, brief)
                       tags_to_add == new_tag_names(tags_data) \ current_tag_names
                       tags_to_remove == current_tag_names \ new_tag_names(tags_data)
                   IN
                   \E adds \in Orders(tags_to_add), removes \in Orders(tags_to_remove) :
                      LET added == AddEach(tags, research_brief_tags, brief, adds, database)
                          removed == RemoveEach(added.tags, added.links, brief, removes)
                      IN
                      /\ briefs' = [briefs EXCEPT ![brief].title = EditedTitle,
                                                  ![brief].citation = EditedCitation]
                      /\ tags' = removed.tags
                      /\ research_brief_tags' = removed.links
                      /\ call' = Call("research_edit", user, id, tags_data, MsgUpdated)

TagNext ==
    \/ \E brief \in 1..Len(briefs), tag_name \in TagNames : AddTag(brief, tag_name)
    \/ \E brief \in 1..Len(briefs), tag_name \in TagNames : RemoveTag(brief, tag_name)
    \/ \E user \in Users, id \in 1..Len(briefs), tags_data \in TagInputs :
            ResearchEdit(user, id, tags_data)

TagSpec == TagInit /\ [][TagNext]_vars

\* --------------------------------------------------- claims about the tags

\* parse of the specification: split on commas, trim, lowercase, drop the
\* empty fragments.
Parse(input) == { lower(strip(fragment)) : fragment \in Elements(split_commas(input)) } \ {<<>>}

\* The tag names of a record before and after the step.
NamesBefore(brief) == get_tag_names(tags, research_brief_tags, brief)
NamesAfter(brief) == get_tag_names(tags', research_brief_tags', brief)

\* The step is an edit of the tags that was reported as a success.
EditDone == call'.op = "research_edit" /\ call'.result = MsgUpdated

\* C19 as the specification states it: an edit of a record's tags with the
\* input X adds exactly parse(X) minus the current tags, removes exactly the
\* current tags minus parse(X), and leaves the record with the tags
\* parse(X); an empty input removes every tag.
C19_AsStated ==
    [][EditDone =>
        LET X == Parse(call'.input)
            before == NamesBefore(call'.brief)
            after == NamesAfter(call'.brief)
        IN
        /\ after \ before = X \ before
        /\ before \ after = before \ X
        /\ after = X
        /\ strip(call'.input) = <<>> => after = {}]_vars

\* An edit on PostgreSQL asked for a tag of 101 letters and was reported as
\* a success; the record does not have the tag.
C19_LongTagDropped ==
    /\ call.op = "research_edit" /\ call.result = MsgUpdated
    /\ database = "postgresql"
    /\ <<LongWord>> \in Parse(call.input)
    /\ <<LongWord>> \notin get_tag_names(tags, research_brief_tags, call.brief)

\* Every stored tag name is non-empty, trimmed and lowercase, and no two
\* tags share a name.
WellFormed(store) ==
    /\ \A i \in 1..Len(store) :
          store[i] # <<>> /\ strip(store[i]) = store[i] /\ lower(store[i]) = store[i]
    /\ \A i, j \in 1..Len(store) : store[i] = store[j] => i = j

\* C20: after any tag operation every stored tag name is non-empty, trimmed
\* and lowercase and no two tags share a name; add_tag with a name that
\* exists globally, in any letter case or with surrounding spaces, succeeds,
\* creates no tag and links the existing one; and add_tag repeated with the
\* same arguments changes nothing more.
C20_TagsNormalizedAndShared ==
    [][/\ WellFormed(tags')
       /\ call'.op = "add_tag" =>
            LET name == lower(strip(call'.input))
                again == add_tag(tags', research_brief_tags', call'.brief, call'.input, database)
            IN
            /\ name \in Elements(tags) =>
                  /\ call'.result = "True"
                  /\ tags' = tags
                  /\ research_brief_tags' =
                        research_brief_tags \cup {<<call'.brief, filter_by_name(tags, name)>>}
            /\ again.tags = tags'
            /\ again.links = research_brief_tags']_vars

\* add_tag was called with ' A ' on a record while the other record had the
\* tag 'a': the one tag 'a' is now linked to both records.
C20_Witness ==
    /\ call.op = "add_tag" /\ call.input = <<SPACE, "A", SPACE>> /\ call.result = "True"
    /\ \E t \in 1..Len(tags) :
          /\ tags[t] = <<"a">>
          /\ \A brief \in 1..Len(briefs) : <<brief, t>> \in research_brief_tags
    /\ Len(tags) >= 2

\* ------------------------------------------------------------ manual entry

\* The two contents of an empty editor forms/research.py:168 names, and a
\* well-formed URL, each as one character of a field's text.
EmptyParagraphBr == "<p><br></p>"
EmptyParagraph == "<p></p>"
GoodUrl == "https://example.com/article"

ManualForm(title, citation, summary_html, manual_source_text, source_name, url, tags_data) ==
    [title |-> title, citation |-> citation, summary |-> summary_html,
     manual_source_text |-> manual_source_text, source_name |-> source_name,
     url |-> url, tags |-> tags_data]

\* wtforms Optional(): a field whose input is empty or blank is valid and the
\* validators after it, validate_<field> included, do not run.
OptionalStops(value) == strip(value) = <<>>

\* forms/research.py:148-154, :156-162, :164-169, :171-175 for 'manual'.
validate_title(value) ==
    ~(value = <<>> \/ strip(value) = <<>>) /\ len(strip(value)) <= MaxTitleLength
validate_citation(value) ==
    ~(value = <<>> \/ strip(value) = <<>>) /\ len(strip(value)) <= MaxCitationLength
validate_summary(value) ==
    ~(value = <<>> \/ strip(value) = <<>>
        \/ strip(value) \in {<<EmptyParagraphBr>>, <<EmptyParagraph>>, <<>>})
validate_manual_source_text(value) == ~(value = <<>> \/ strip(value) = <<>>)

\* forms/research.py:38-115: the validators of each field, in their order.
ManualFormValid(f) ==
    /\ OptionalStops(f.title) \/ (len(f.title) <= MaxTitleLength /\ validate_title(f.title))
    /\ OptionalStops(f.citation)
          \/ (len(f.citation) <= MaxCitationLength /\ validate_citation(f.citation))
    /\ OptionalStops(f.summary) \/ validate_summary(f.summary)
    /\ OptionalStops(f.manual_source_text)
          \/ (len(f.manual_source_text) >= 1 /\ validate_manual_source_text(f.manual_source_text))
    /\ OptionalStops(f.url) \/ (f.url = <<GoodUrl>> /\ len(f.url) <= MaxUrlLength)
    /\ OptionalStops(f.tags) \/ len(f.tags) <= MaxTagsInputLength

\* research.py:140-151: the row of a manual entry.
ManualRow(id, user, f) ==
    [id |-> id, user_id |-> user, title |-> strip(f.title), citation |-> strip(f.citation),
     summary |-> strip(f.summary), source_text |-> strip(f.manual_source_text),
     url |-> IF f.url # <<>> THEN strip(f.url) ELSE NULL,
     source_type |-> "manual", pdf_filename |-> NULL, pdf_data |-> NULL,
     content_hash |-> NULL,
     model_name |-> IF f.source_name # "" THEN f.source_name ELSE NULL]

\* BaseModel.safe_create: the row is stored whole or not at all.
safe_create_row(store, row) == Append(store, row)

\* research.py:15-29
add_tags_to_brief(store, links, brief, tag_input, engine) ==
    IF tag_input = <<>> \/ strip(tag_input) = <<>> THEN Tagged(store, links, TRUE)
    ELSE LET fragments == SelectSeq(split_commas(tag_input), LAMBDA tag : strip(tag) # <<>>)
             tag_names == [i \in 1..Len(fragments) |-> lower(strip(fragments[i]))]
         IN AddEach(store, links, brief, tag_names, engine)

\* What the form of a manual entry may hold.
ManualTitles == { <<>>, <<SPACE>>, <<SPACE, "t">>, <<HugeWord>> }
ManualCitations == { <<>>, <<"c">> }
ManualSummaries ==
    { <<>>, <<EmptyParagraphBr>>, <<SPACE, EmptyParagraph>>, <<"<p>", "s", "</p>", SPACE>> }
ManualSourceTexts == { <<>>, <<"x">> }
ManualForms ==
    { ManualForm(t, c, s, x, n, u, g) :
        t \in ManualTitles, c \in ManualCitations, s \in ManualSummaries,
        x \in ManualSourceTexts, n \in {"", "Claude"}, u \in {<<>>, <<"h">>, <<GoodUrl>>},
        g \in {<<>>, <<SPACE, "A">>} }

\* One manual entry is to come; the store may refuse it.
ManualInit ==
    /\ NormalizerIdle
    /\ TaggingIdle
    /\ LibraryIdle
    /\ scenario = "manual"
    /\ maxContentLength = MAX_CONTENT_LENGTH
    /\ apiKey = TRUE
    /\ envModel = DefaultModel
    /\ faultsLeft = 1
    /\ reqsLeft = 1
    /\ briefs = <<>>
    /\ pc = "idle"
    /\ req = NoRequest
    /\ idx = 0
    /\ results = <<>>
    /\ response = NoResponse
    /\ filename = NULL
    /\ data = NULL
    /\ sourceChars = -1
    /\ params = EmptyParams
    /\ reply = NoReply
    /\ briefData = NoBrief
    /\ trace = <<>>

\* research.py:76-81 and :137-163 with the fields of the form: the form is
\* validated, the row is created from the trimmed fields, the tags are added
\* and the user is sent to the record.
ManualEntry(u, f) ==
    /\ pc \in {"idle", "done"}
    /\ reqsLeft > 0
    /\ reqsLeft' = reqsLeft - 1
    /\ req' = [user |-> u, source_type |-> "manual", files |-> <<>>, chars |-> 0, form |-> f]
    /\ UNCHANGED <<config, normalizer, library, database, call, idx, results, locals, trace>>
    /\ IF ~ManualFormValid(f)
       THEN /\ ShowForm("form errors")
            /\ UNCHANGED <<briefs, faultsLeft, tags, research_brief_tags>>
       ELSE \E refused \in BOOLEAN :
              /\ UseFaults(IF refused THEN 1 ELSE 0)
              /\ IF refused
                 THEN /\ ShowForm(MsgSaveFailed)
                      /\ UNCHANGED <<briefs, tags, research_brief_tags>>
                 ELSE LET tagged == add_tags_to_brief(tags, research_brief_tags,
                                                      Len(briefs) + 1, f.tags, database)
                      IN
                      /\ briefs' = safe_create_row(briefs, ManualRow(Len(briefs) + 1, u, f))
                      /\ tags' = tagged.tags
                      /\ research_brief_tags' = tagged.links
                      /\ pc' = "done"
                      /\ response' = Response("redirect", Len(briefs) + 1, <<>>, MsgCreated)

ManualNext == \E u \in Users, f \in ManualForms : ManualEntry(u, f)

ManualSpec == ManualInit /\ [][ManualNext]_vars

\* ------------------------------------------- claims about the manual entry

\* What the specification asks of the fields of a manual entry.
Acceptable(f) ==
    /\ strip(f.title) # <<>>
    /\ strip(f.citation) # <<>>
    /\ strip(f.summary) \notin {<<>>, <<EmptyParagraphBr>>, <<EmptyParagraph>>}
    /\ strip(f.manual_source_text) # <<>>

\* C21 as the specification states it: a manual entry is stored only if its
\* title, citation, summary and source text are non-empty after trimming and
\* the summary is not the content of an empty editor; otherwise it is
\* rejected and nothing is stored; a stored record holds the fields as
\* entered and the chosen source label as its model name.
C21_AsStated ==
    req.source_type = "manual" =>
        /\ ~Acceptable(req.form) => briefs = <<>> /\ response.kind = "form"
        /\ \A i \in 1..Len(briefs) :
              /\ briefs[i].title = strip(req.form.title)
              /\ briefs[i].citation = strip(req.form.citation)
              /\ briefs[i].summary = strip(req.form.summary)
              /\ briefs[i].source_text = strip(req.form.manual_source_text)
              /\ req.form.source_name # "" => briefs[i].model_name = req.form.source_name

\* A manual entry with a blank title was stored: the record has no title.
C21_RecordWithoutTitle ==
    /\ req.source_type = "manual"
    /\ req.form.title = <<SPACE>>
    /\ response.kind = "redirect"
    /\ \E i \in 1..Len(briefs) : briefs[i].title = <<>>

\* ------------------------------------------ claims about the PDF response

\* C22: when a PDF submission has been processed, the user is sent to the
\* created record exactly when the submission had one file and its outcome
\* is success; in every other case the list of the outcomes is returned.
C22_RedirectOnlyForOneSuccess ==
    pc = "done" /\ req.source_type = "pdf" /\ results # <<>> =>
        LET single == Len(pdf_files) = 1 /\ results[1].status = "success" IN
        /\ response.kind \in {"redirect", "results"}
        /\ response.kind = "redirect" <=> single
        /\ single =>
              /\ response.brief_id = results[1].brief_id
              /\ response.brief_id \in 1..Len(briefs)
              /\ briefs[response.brief_id].user_id = req.user
        /\ ~single => response.batch_results = results /\ Len(results) = Len(pdf_files)

\* Two files were processed, the first with success: the list of outcomes
\* was returned.
C22_Witness ==
    /\ pc = "done" /\ req.source_type = "pdf"
    /\ Len(pdf_files) = 2 /\ Len(results) = 2
    /\ results[1].status = "success"
    /\ response.kind = "results"

\* ------------------------------------------------ the bulk CSV music import
\* music_importer.py:71 and :132
BatchSize == 50
ProgressEvery == 25
\* Commits the database may refuse for a reason of its own.
MaxCommitFaults == 1

\* A data row of the uploaded file: its Track URI (0 for an empty one), its
\* Track Name and its kind: "full" has every column, "short" has fewer
\* columns than the header so that csv.DictReader gives None for the missing
\* ones, "blank" has only empty values, "garbled" cannot be decoded as UTF-8.
Row(uri, name, kind) == [track_uri |-> uri, track_name |-> name, kind |-> kind]
\* song.py:7-40, the columns that tell two rows apart
Song(uri, name) == [track_uri |-> uri, track_name |-> name]

\* tests/test_music_routes.py:298-324
TwoSame == << Row(1, "First Import", "full"), Row(1, "Second Import", "full") >>
Mixed ==
    << Row(2, "A", "full"), Row(0, "", "blank"), Row(0, "B", "full"),
       Row(3, "C", "short"), Row(1, "D", "full"), Row(2, "E", "short") >>
Garbled == << Row(2, "A", "full"), Row(0, "", "garbled") >>
\* BatchSize different songs, then the first one again.
Long ==
    [ i \in 1..(BatchSize + 1) |->
        IF i <= BatchSize THEN Row(i, "First Import", "full")
        ELSE Row(1, "Second Import", "full") ]
ImportFiles == { TwoSame, Mixed, Garbled, Long }

\* music_importer.py:36-47: the rows after the header, 0 when reading fails.
count_csv_rows(rows) ==
    IF \E i \in 1..Len(rows) : rows[i].kind = "garbled" THEN 0 ELSE Len(rows)

\* song.py:86-94
find_by_track_uri(table, uri) == { s \in table : s.track_uri = uri }

\* Whether the INSERTs of `batch` break the primary key of songs (song.py:11).
Conflicts(table, batch) ==
    \/ \E i, j \in 1..Len(batch) : i < j /\ batch[i].track_uri = batch[j].track_uri
    \/ \E i \in 1..Len(batch) : find_by_track_uri(table, batch[i].track_uri) # {}

\* db.session.add_all(batch); db.session.commit() on the tables `table` and
\* `row`, with `j` the job object of the session.  A session whose flush
\* failed is inactive until rollback() and refuses every later commit.
CommitOf(table, row, sess, batch, j, fault) ==
    IF sess = "active" /\ ~fault /\ ~Conflicts(table, batch)
    THEN [ok |-> TRUE, songs |-> table \cup { batch[i] : i \in 1..Len(batch) },
          jobRow |-> j, session |-> "active"]
    ELSE [ok |-> FALSE, songs |-> table, jobRow |-> row, session |-> "inactive"]

\* routes/music.py:97-142: the file is saved, the job is stored as queued
\* and the worker is started.
MusicImport(rows) ==
    /\ worker = "none"
    /\ csv' = rows
    /\ uploaded' = TRUE
    /\ jobRow' = Job("queued", 0, 0, 0, 0, 0, FALSE, FALSE, NULL)
    /\ worker' = "queued"
    /\ UNCHANGED <<songs, job, pending, row_num, session, commitFaults>>
    /\ UNCHANGED <<pipeline, normalizer, tagging, playlists, spotify, submissions>>

\* music_importer.py:158-172: the handler of a failure and the clean-up.
\* The handler commits without a rollback.
Handler(table, row, sess, j, fault) ==
    LET failed == [j EXCEPT !.status = "failed", !.finished_at = TRUE,
                            !.error_message = "error"]
        done   == CommitOf(table, row, sess, <<>>, failed, fault)
    IN
    /\ songs' = done.songs
    /\ jobRow' = done.jobRow
    /\ session' = done.session
    /\ job' = failed
    /\ pending' = <<>>
    /\ worker' = IF done.ok THEN "ended" ELSE "raised"
    /\ uploaded' = FALSE

\* The commit the database refuses, 0 for none, among the `n` of a step.
Refusals(n) == IF commitFaults > 0 THEN 0..n ELSE {0}
Refuse(f) == commitFaults' = IF f = 0 THEN commitFaults ELSE commitFaults - 1

\* music_importer.py:52-62
ImportStart ==
    /\ worker = "queued"
    /\ UNCHANGED <<csv>>
    /\ UNCHANGED <<pipeline, normalizer, tagging, playlists, spotify, submissions>>
    /\ IF jobRow = NoJob
       THEN /\ worker' = "ended"
            /\ UNCHANGED <<songs, jobRow, job, pending, row_num, uploaded, session,
                           commitFaults>>
       ELSE LET running == [jobRow EXCEPT !.status = "running", !.started_at = TRUE,
                                          !.total_rows = count_csv_rows(csv)]
            IN
            \E f \in Refusals(1) :
               LET done == CommitOf(songs, jobRow, session, <<>>, running, f = 1) IN
               /\ Refuse(f)
               /\ IF done.ok
                  THEN /\ songs' = done.songs
                       /\ jobRow' = done.jobRow
                       /\ session' = done.session
                       /\ job' = running
                       /\ pending' = <<>>
                       /\ row_num' = 1
                       /\ worker' = "loop"
                       /\ UNCHANGED uploaded
                  ELSE /\ Handler(done.songs, done.jobRow, done.session, running, FALSE)
                       /\ UNCHANGED row_num

\* The loop goes to the next row with `j` and `batch` (a `continue`, or the end
\* of the body).
NextRow(j, batch) ==
    /\ job' = j
    /\ pending' = batch
    /\ row_num' = row_num + 1
    /\ UNCHANGED <<songs, jobRow, session, worker, uploaded, commitFaults>>

\* music_importer.py:73-140: one pass of the loop.  row_num counts the data
\* rows from 1; the loop variable of the code is one more (the header is
\* row 1).  A commit that fails inside the body is caught by the handler of
\* the row, whose `job.error_count += 1` reads an expired attribute through
\* the inactive session and raises in turn.
ImportRow ==
    /\ worker = "loop"
    /\ row_num <= Len(csv)
    /\ UNCHANGED <<csv>>
    /\ UNCHANGED <<pipeline, normalizer, tagging, playlists, spotify, submissions>>
    /\ LET row  == csv[row_num]
           line == row_num + 1
       IN
       IF row.kind = "garbled"
       THEN \E f \in Refusals(1) :
               /\ Refuse(f)
               /\ Handler(songs, jobRow, session, job, f = 1)
               /\ UNCHANGED row_num
       ELSE IF row.kind = "blank"
       THEN NextRow(job, pending)
       ELSE IF row.track_uri = 0
       THEN NextRow([job EXCEPT !.error_count = @ + 1], pending)
       ELSE IF find_by_track_uri(songs, row.track_uri) # {}
       THEN NextRow([job EXCEPT !.duplicate_count = @ + 1], pending)
       ELSE IF row.kind = "short"
       THEN NextRow([job EXCEPT !.error_count = @ + 1], pending)
       ELSE LET batch   == Append(pending, Song(row.track_uri, row.track_name))
                counted == [job EXCEPT !.inserted_count = @ + 1]
                full    == Len(batch) >= BatchSize
                due     == line % ProgressEvery = 0
                shown   == [counted EXCEPT !.processed_rows = line]
            IN
            \E f \in Refusals(2) :
               LET first  == IF full
                             THEN CommitOf(songs, jobRow, session, batch, counted, f = 1)
                             ELSE [ok |-> TRUE, songs |-> songs, jobRow |-> jobRow,
                                   session |-> session]
                   second == IF first.ok /\ due
                             THEN CommitOf(first.songs, first.jobRow, first.session,
                                           <<>>, shown, f = 2)
                             ELSE first
               IN
               /\ (f = 1) => full
               /\ (f = 2) => (first.ok /\ due)
               /\ Refuse(f)
               /\ IF second.ok
                  THEN /\ songs' = second.songs
                       /\ jobRow' = second.jobRow
                       /\ session' = second.session
                       /\ job' = IF due THEN shown ELSE counted
                       /\ pending' = IF full THEN <<>> ELSE batch
                       /\ row_num' = row_num + 1
                       /\ UNCHANGED <<worker, uploaded>>
                  ELSE /\ Handler(second.songs, second.jobRow, second.session,
                                  IF first.ok THEN shown ELSE counted, FALSE)
                       /\ UNCHANGED row_num

\* music_importer.py:142-156 and :165-172: the remaining batch, the final
\* update and the clean-up.
ImportFinish ==
    /\ worker = "loop"
    /\ row_num > Len(csv)
    /\ UNCHANGED <<csv, row_num>>
    /\ UNCHANGED <<pipeline, normalizer, tagging, playlists, spotify, submissions>>
    /\ LET completed == [job EXCEPT !.processed_rows = job.total_rows,
                                    !.status = "completed", !.finished_at = TRUE]
       IN
       \E f \in Refusals(2) :
          LET first  == IF pending # <<>>
                        THEN CommitOf(songs, jobRow, session, pending, job, f = 1)
                        ELSE [ok |-> TRUE, songs |-> songs, jobRow |-> jobRow,
                              session |-> session]
              second == IF first.ok
                        THEN CommitOf(first.songs, first.jobRow, first.session,
                                      <<>>, completed, f = 2)
                        ELSE first
          IN
          /\ (f = 1) => pending # <<>>
          /\ (f = 2) => first.ok
          /\ Refuse(f)
          /\ IF second.ok
             THEN /\ songs' = second.songs
                  /\ jobRow' = second.jobRow
                  /\ session' = second.session
                  /\ job' = completed
                  /\ pending' = <<>>
                  /\ worker' = "ended"
                  /\ uploaded' = FALSE
             ELSE Handler(second.songs, second.jobRow, second.session, job, FALSE)

\* The song a former import stored.
StoredSong == Song(1, "Stored")

ImportInit ==
    /\ PipelineIdle
    /\ NormalizerIdle
    /\ TaggingIdle
    /\ PlaylistsIdle
    /\ SpotifyIdle
    /\ submissions = <<>>
    /\ songs \in { {}, {StoredSong} }
    /\ jobRow = NoJob
    /\ job = NoJob
    /\ pending = <<>>
    /\ row_num = 0
    /\ csv = <<>>
    /\ worker = "none"
    /\ uploaded = FALSE
    /\ session = "active"
    /\ commitFaults \in 0..MaxCommitFaults

ImportNext ==
    \/ \E rows \in ImportFiles : MusicImport(rows)
    \/ ImportStart
    \/ ImportRow
    \/ ImportFinish

ImportSpec == ImportInit /\ [][ImportNext]_vars

\* --------------------------------------------------- claims about the import
\* The worker is over: it returned, or an exception left it.
WorkerOver == worker \in {"ended", "raised"}
\* The database refused no commit of this import.
NoRefusal == commitFaults = MaxCommitFaults
\* Every row of the file has every column and a Track URI.
AllFull == \A i \in 1..Len(csv) : csv[i].kind = "full" /\ csv[i].track_uri # 0
UrisOf(rows) == { rows[i].track_uri : i \in 1..Len(rows) }
\* The URIs stored before the import (an import never stores StoredSong).
StoredBefore == { s.track_uri : s \in songs \cap {StoredSong} }
FirstRowOf(uri) ==
    csv[CHOOSE i \in 1..Len(csv) :
          /\ csv[i].track_uri = uri
          /\ \A k \in 1..(i - 1) : csv[k].track_uri # uri]

\* C23: after the import of a file whose rows repeat a Track URI, the store
\* holds exactly one Song per new URI, with the data of the first row of that
\* URI; the job counts one insertion per new URI and every other row as a
\* duplicate (two rows with one URI: inserted_count = 1, duplicate_count = 1).
C23_AsStated ==
    (WorkerOver /\ NoRefusal /\ AllFull) =>
        LET new == UrisOf(csv) \ StoredBefore IN
        /\ \A u \in new :
              find_by_track_uri(songs, u) = { Song(u, FirstRowOf(u).track_name) }
        /\ jobRow.inserted_count = Cardinality(new)
        /\ jobRow.duplicate_count = Len(csv) - Cardinality(new)

\* Both rows of the file of the test went into one batch: the job object
\* counts two insertions, the commit of the batch failed on the primary key,
\* no song is stored and the row of the job still says "running".
C23_BothRowsLost ==
    /\ worker = "raised"
    /\ csv = TwoSame
    /\ NoRefusal
    /\ job.inserted_count = 2
    /\ job.duplicate_count = 0
    /\ songs = {}
    /\ jobRow.status = "running"

\* The part of C23 that holds: a repeat that comes after the commit of the
\* batch of its first row is counted as a duplicate.
C23_AcrossBatches ==
    (WorkerOver /\ NoRefusal /\ csv = Long) =>
        /\ jobRow.status = "completed"
        /\ \A u \in UrisOf(csv) \ StoredBefore :
              find_by_track_uri(songs, u) = { Song(u, "First Import") }
        /\ jobRow.inserted_count + jobRow.duplicate_count = Len(csv)
        /\ jobRow.duplicate_count = 1 + Cardinality(StoredBefore)

\* C28: a job whose worker is over is completed or failed with finished_at
\* set, also after a row or a commit failed, and its file is removed.
C28_AsStated ==
    (WorkerOver /\ jobRow # NoJob) =>
        /\ jobRow.status \in {"completed", "failed"}
        /\ jobRow.finished_at
        /\ ~uploaded

\* The database refused a commit of an import without repeated rows: the
\* worker is over, the file is removed, the job is left as it was.
C28_JobLeftUnfinished ==
    /\ worker = "raised"
    /\ csv = Mixed
    /\ ~uploaded
    /\ jobRow.status \in {"queued", "running"}
    /\ ~jobRow.finished_at

\* The parts of C28 that hold: the status only moves along queued, running,
\* completed or failed; a failing row leaves the job completed; the file is
\* removed when the worker is over.
C28_StatusOrder ==
    [][ jobRow'.status # jobRow.status =>
          <<jobRow.status, jobRow'.status>> \in
             { <<"none", "queued">>, <<"queued", "running">>,
               <<"running", "completed">>, <<"running", "failed">> } ]_vars
C28_RowFailureCompletes ==
    (worker = "ended" /\ csv = Mixed) =>
        /\ jobRow.status = "completed" /\ jobRow.finished_at /\ ~uploaded
        /\ jobRow.error_count = 3

\* ------------------------------------- claims about the token-limit parameter
TokenLimitNames == {"max_tokens", "max_completion_tokens"}
OtherLimitName(n) == IF n = "max_tokens" THEN "max_completion_tokens" ELSE "max_tokens"
\* The token-limit parameters a request carried.
LimitsOf(p) == DOMAIN p \cap TokenLimitNames
\* While a retry is due the trace ends with the first request and its
\* rejection; the rejection says that the token-limit parameter the request
\* carried is not supported.
LimitRejected ==
    /\ pc = "retry"
    /\ Len(trace) >= 2
    /\ trace[Len(trace) - 1].stage = "invoke"
    /\ \E n \in LimitsOf(trace[Len(trace) - 1].params) :
          {n, "not supported"} \subseteq trace[Len(trace)].notes

\* C24: every request carries exactly one token-limit parameter, the first
\* one max_completion_tokens when the model id contains 'gpt-5' and max_tokens
\* otherwise; after a rejection that says this parameter is not supported the
\* retry carries the other name with the same value and not the rejected one.
C24_AsStated ==
    /\ \A k \in 1..Len(trace) :
          trace[k].stage = "invoke" => Cardinality(LimitsOf(trace[k].params)) = 1
    /\ \A k \in FirstInvokes :
          LimitsOf(trace[k].params) =
             IF is_gpt5_model(envModel) THEN {"max_completion_tokens"} ELSE {"max_tokens"}
    /\ LimitRejected =>
          LET sent == trace[Len(trace) - 1].params IN
          \A n \in LimitsOf(sent) :
             /\ LimitsOf(params) = {OtherLimitName(n)}
             /\ params[OtherLimitName(n)] = sent[n]

\* The request for a 'gpt-5' model carried max_completion_tokens = 4000 and
\* was rejected with a message that says it is not supported and names
\* max_tokens: the retry is about to carry max_completion_tokens again, with
\* the default of max_tokens as its value.
C24_RetryRepeatsRejected ==
    /\ LimitRejected
    /\ is_gpt5_model(envModel)
    /\ trace[Len(trace) - 1].params["max_completion_tokens"] = Gpt5MaxCompletionTokens
    /\ "max_tokens" \in trace[Len(trace)].notes
    /\ LimitsOf(params) = {"max_completion_tokens"}
    /\ params["max_completion_tokens"] = DefaultMaxTokens

\* The part of C24 that holds: every request carries exactly one token-limit
\* parameter, and a rejection that names only the parameter sent is answered
\* with the other name and the same value.
C24_OneLimitPerRequest ==
    /\ \A k \in 1..Len(trace) :
          trace[k].stage = "invoke" => Cardinality(LimitsOf(trace[k].params)) = 1
    /\ (LimitRejected /\ ~(TokenLimitNames \subseteq trace[Len(trace)].notes)) =>
          LET sent == trace[Len(trace) - 1].params IN
          \A n \in LimitsOf(sent) :
             /\ LimitsOf(params) = {OtherLimitName(n)}
             /\ params[OtherLimitName(n)] = sent[n]

\* ------------------------------------------- concurrent PDF submissions
\* The requests the server handles at the same time, each in a worker with a
\* database session of its own, all on the one research_briefs table.
MaxConcurrent == 2
Workers == 1..MaxConcurrent
ConcurrentFiles == { File("a.pdf", "c1"), File("a.pdf", "c2"), File("b.pdf", "c1") }

\* A submission of one file: where its worker is in research_create, whose
\* it is, the sanitized filename and the bytes in hand, and its outcome.
Submission(at, user, name, bytes, status, id) ==
    [pc |-> at, user |-> user, filename |-> name, data |-> bytes,
     status |-> status, brief_id |-> id]
NoSubmission == Submission("none", NoId, NULL, NULL, "", NoId)

\* research.py:165-215: the request arrives and the file is read.
Arrive(w, u, f) ==
    /\ submissions[w].pc = "none"
    /\ submissions' = [submissions EXCEPT
                          ![w] = Submission("dedup", u, secure_filename(f.filename),
                                            f.data, "", NoId)]
    /\ UNCHANGED <<request, briefs, normalizer, tagging, importer, playlists, spotify>>

\* research.py:218-232: the duplicate check reads the table as it is now.
Dedup(w) ==
    /\ submissions[w].pc = "dedup"
    /\ \E d \in check_duplicate(briefs, submissions[w].filename, submissions[w].data, {}) :
          submissions' = [submissions EXCEPT
                             ![w] = IF d.is_duplicate
                                    THEN [@ EXCEPT !.pc = "done", !.status = "duplicate",
                                                   !.brief_id = d.brief_id]
                                    ELSE [@ EXCEPT !.pc = "generate"]]
    /\ UNCHANGED <<request, briefs, normalizer, tagging, importer, playlists, spotify>>

\* research.py:234-270: the text is extracted and the brief generated, or
\* the file ends in an error.
Generate(w) ==
    /\ submissions[w].pc = "generate"
    /\ \E ok \in BOOLEAN :
          submissions' = [submissions EXCEPT
                             ![w] = IF ok THEN [@ EXCEPT !.pc = "persist"]
                                    ELSE [@ EXCEPT !.pc = "done", !.status = "error"]]
    /\ UNCHANGED <<request, briefs, normalizer, tagging, importer, playlists, spotify>>

\* research.py:272-293: the record is stored.
Store(w) ==
    /\ submissions[w].pc = "persist"
    /\ briefs' = safe_create(briefs, submissions[w].user, 1, 1, "pdf",
                             submissions[w].filename, submissions[w].data,
                             calculate_pdf_hash(submissions[w].data), DefaultModel)
    /\ submissions' = [submissions EXCEPT
                          ![w] = [@ EXCEPT !.pc = "done", !.status = "success",
                                           !.brief_id = Len(briefs) + 1]]
    /\ UNCHANGED <<request, normalizer, tagging, importer, playlists, spotify>>

\* The store is empty or holds the record of a former submission.
ConcurrentInit ==
    /\ RequestIdle
    /\ NormalizerIdle
    /\ TaggingIdle
    /\ ImporterIdle
    /\ PlaylistsIdle
    /\ SpotifyIdle
    /\ briefs \in { <<>>, safe_create(<<>>, 1, 1, 1, "pdf", "b.pdf", "c2",
                                      calculate_pdf_hash("c2"), DefaultModel) }
    /\ submissions = [w \in Workers |-> NoSubmission]

ConcurrentNext ==
    \/ \E w \in Workers, u \in Users, f \in ConcurrentFiles : Arrive(w, u, f)
    \/ \E w \in Workers : Dedup(w)
    \/ \E w \in Workers : Generate(w)
    \/ \E w \in Workers : Store(w)

ConcurrentSpec == ConcurrentInit /\ [][ConcurrentNext]_vars

\* -------------------------------------- claims about concurrent submissions
PdfRecords == { i \in 1..Len(briefs) : briefs[i].source_type = "pdf" }

\* C25: whatever the interleaving of concurrent PDF submissions, with no
\* fault in the duplicate check, no two PDF records of the store have the
\* same content fingerprint or the same filename.
C25_AsStated ==
    \A i, j \in PdfRecords :
        i # j => /\ briefs[i].content_hash # briefs[j].content_hash
                 /\ briefs[i].pdf_filename # briefs[j].pdf_filename

\* Two users submitted the same file at the same time; both checks ran
\* before either record was stored, and both records are in the store.
C25_BothStored ==
    /\ \A w \in Workers : submissions[w].status = "success"
    /\ submissions[1].user # submissions[2].user
    /\ \E i, j \in PdfRecords :
          /\ i # j
          /\ briefs[i].content_hash = briefs[j].content_hash
          /\ briefs[i].pdf_filename = briefs[j].pdf_filename

\* What holds: a submission whose check ran after the record of the other
\* one was stored is answered as a duplicate of it or of an older record.
C25_CheckAfterStoreFindsIt ==
    \A w \in Workers :
        submissions[w].status = "duplicate" =>
            /\ submissions[w].brief_id \in PdfRecords
            /\ \/ briefs[submissions[w].brief_id].pdf_filename = submissions[w].filename
               \/ briefs[submissions[w].brief_id].content_hash =
                     calculate_pdf_hash(submissions[w].data)

\* ------------------------------------------------- claims about one batch
\* results[k] is the outcome of the k-th file of the batch in hand.
NameOf(k) == secure_filename(pdf_files[k].filename)
BytesOf(k) == pdf_files[k].data
\* File j repeats the earlier file i: the same bytes or the same sanitized
\* filename.
Repeats(i, j) == BytesOf(i) = BytesOf(j) \/ NameOf(i) = NameOf(j)
\* The same, for a filename the duplicate check compares.
RepeatsComparably(i, j) ==
    BytesOf(i) = BytesOf(j) \/ (NameOf(i) = NameOf(j) /\ NameOf(j) # "")
\* No lookup of the duplicate check of file j failed.
DedupClean(j) ==
    \A k \in 1..Len(trace) :
        (trace[k].file = j /\ trace[k].stage = "dedup") => trace[k].notes = {}
\* The records file j can be a duplicate of.
MatchesOf(j) ==
    (IF NameOf(j) = "" THEN {} ELSE SameName(briefs, NameOf(j)))
       \cup SameContent(briefs, BytesOf(j))
Earlier == { ij \in (1..Len(results)) \X (1..Len(results)) : ij[1] < ij[2] }

C26_AfterError ==
    /\ Len(results) = 2
    /\ results[1].status = "error"
    /\ results[2].status = "success"
    /\ NameOf(1) = NameOf(2)

\* ------------------------------------------- claims about accepted sizes
\* The submission in hand is a PDF submission with at least one file, which
\* the form accepts but for its size, no file of it over 25 MB and the files
\* together not over 100 MB.
WithinSizeLimits ==
    /\ req.source_type = "pdf"
    /\ pdf_files # <<>>
    /\ HasPdfExtension(pdf_files[1].filename)
    /\ \A i \in 1..Len(pdf_files) : ByteLen(pdf_files[i].data) <= MaxFileSize
    /\ SumSizes(pdf_files) <= MaxTotalSize
\* The request was answered after its files were processed one by one.
FilesProcessed == response.kind \in {"redirect", "results"} /\ results # <<>>

\* C27: a PDF submission within the limits of 25 MB a file and 100 MB in all
\* is not rejected for its size: it is answered after its files were
\* processed.
C27_AsStated == (WithinSizeLimits /\ pc = "done") => FilesProcessed

\* One file of exactly 25 MB: the body of the request is longer than
\* MAX_CONTENT_LENGTH and the request is refused with 413.
C27_RefusedWithinLimits ==
    /\ WithinSizeLimits
    /\ pc = "done"
    /\ Len(pdf_files) = 1
    /\ ByteLen(pdf_files[1].data) = MaxFileSize
    /\ response.kind = "413"

\* What holds: without the cap on the body of the request a submission
\* within the limits is processed, and the size checks of research_create
\* reject only a file over 25 MB and a total over 100 MB.
C27_WithoutBodyCap ==
    /\ (WithinSizeLimits /\ maxContentLength = 0 /\ pc = "done") => FilesProcessed
    /\ (pc = "done" /\ response.flash \in {MsgFileTooBig, MsgTotalTooBig}) =>
          ~WithinSizeLimits

\* ------------------------------------------------------------ the playlists
\* The playlists of the run and the Track URIs users name: the songs 1 to
\* MaxSongs are in the library, UnknownSong is not.
MaxPlaylists == 2
MaxSongs == 3
UnknownSong == MaxSongs + 1
PlaylistIds == 1..MaxPlaylists
LibrarySongs == { Song(u, "Song") : u \in 1..MaxSongs }

\* A row of playlist_songs (playlist.py:7-15).
PlaylistSong(playlist, uri, position) ==
    [playlist_id |-> playlist, track_uri |-> uri, position |-> position]
RowsOf(table, playlist) == { r \in table : r.playlist_id = playlist }

MsgSongNotFound == "Song not found"
MsgAlreadyIn == "Song already in playlist"
MsgDbError == "database error"

\* playlist.py:144-148: max(position) of the playlist is None when it has no
\* row; `(max_position or -1) + 1` takes -1 for None and for 0 alike.
next_position(table, playlist) ==
    LET positions == { r.position : r \in RowsOf(table, playlist) }
        max_position == CHOOSE m \in positions : \A q \in positions : q <= m
    IN  (IF positions # {} /\ max_position # 0 THEN max_position ELSE -1) + 1

\* playlist.py:127-164 with position=None, as every caller uses it
\* (routes/music.py:294, spotify_service.py:295).
add_song(table, catalog, playlist, uri, fails) ==
    IF fails
    THEN [ok |-> FALSE, message |-> MsgDbError, table |-> table]
    ELSE IF find_by_track_uri(catalog, uri) = {}
    THEN [ok |-> FALSE, message |-> MsgSongNotFound, table |-> table]
    ELSE IF \E r \in RowsOf(table, playlist) : r.track_uri = uri
    THEN [ok |-> FALSE, message |-> MsgAlreadyIn, table |-> table]
    ELSE [ok |-> TRUE, message |-> "",
          table |-> table \cup { PlaylistSong(playlist, uri, next_position(table, playlist)) }]

\* playlist.py:166-183
remove_song(table, playlist, uri, fails) ==
    IF fails
    THEN [ok |-> FALSE, message |-> MsgDbError, table |-> table]
    ELSE [ok |-> TRUE, message |-> "",
          table |-> { r \in table : ~(r.playlist_id = playlist /\ r.track_uri = uri) }]

\* playlist.py:185-197: the songs of the playlist ordered by position; rows
\* with equal positions come in any order.
get_songs_ordered(table, playlist) ==
    LET rows == RowsOf(table, playlist)
        n    == Cardinality(rows)
    IN  { [i \in 1..n |-> f[i].track_uri] :
            f \in { g \in [1..n -> rows] :
                      /\ \A i, j \in 1..n : i # j => g[i] # g[j]
                      /\ \A i, j \in 1..n : i < j => g[i].position <= g[j].position } }

\* The sequence without the element.
Less(seq, x) == SelectSeq(seq, LAMBDA y : y # x)

\* routes/music.py:270-305: a song is added to a playlist.
AddSong(p, u) ==
    \E fails \in BOOLEAN :
       LET done == add_song(playlist_songs, songs, p, u, fails) IN
       /\ playlist_songs' = done.table
       /\ addOrder' = IF done.ok THEN [addOrder EXCEPT ![p] = Append(@, u)] ELSE addOrder
       /\ outcome' = Did("add_song", p, u, done.ok, done.message, <<>>)
       /\ UNCHANGED <<pipeline, normalizer, tagging, importer, spotify, submissions>>

\* routes/music.py:310-333: a song is removed from a playlist.
RemoveSong(p, u) ==
    \E fails \in BOOLEAN :
       LET done == remove_song(playlist_songs, p, u, fails) IN
       /\ playlist_songs' = done.table
       /\ addOrder' = IF done.ok THEN [addOrder EXCEPT ![p] = Less(@, u)] ELSE addOrder
       /\ outcome' = Did("remove_song", p, u, done.ok, done.message, <<>>)
       /\ UNCHANGED <<pipeline, normalizer, tagging, importer, spotify, submissions>>

\* routes/music.py:185-200: the songs of a playlist are listed.
ListSongs(p) ==
    /\ \E listed \in get_songs_ordered(playlist_songs, p) :
          outcome' = Did("get_songs_ordered", p, NoId, TRUE, "", listed)
    /\ UNCHANGED <<playlist_songs, addOrder>>
    /\ UNCHANGED <<pipeline, normalizer, tagging, importer, spotify, submissions>>

\* The library holds its songs; the playlists are empty.
PlaylistInit ==
    /\ PipelineIdle
    /\ NormalizerIdle
    /\ TaggingIdle
    /\ SpotifyIdle
    /\ submissions = <<>>
    /\ songs = LibrarySongs
    /\ jobRow = NoJob /\ job = NoJob /\ pending = <<>> /\ row_num = 0
    /\ csv = <<>> /\ worker = "none" /\ uploaded = FALSE /\ session = "active"
    /\ commitFaults = 0
    /\ playlist_songs = {}
    /\ addOrder = [p \in PlaylistIds |-> <<>>]
    /\ outcome = NoOutcome

PlaylistNext ==
    \/ \E p \in PlaylistIds, u \in 1..UnknownSong : AddSong(p, u)
    \/ \E p \in PlaylistIds, u \in 1..UnknownSong : RemoveSong(p, u)
    \/ \E p \in PlaylistIds : ListSongs(p)

PlaylistSpec == PlaylistInit /\ [][PlaylistNext]_vars

\* ------------------------------------------------ claims about playlists
\* C29: a song added without a position gets a position greater than every
\* position of its playlist, so the positions of a playlist are pairwise
\* distinct after any additions and removals, and get_songs_ordered returns
\* the songs in the order they were added.
C29_AsStated ==
    /\ \A r, q \in playlist_songs :
          (r.playlist_id = q.playlist_id /\ r.track_uri # q.track_uri) =>
              r.position # q.position
    /\ outcome.op = "get_songs_ordered" => outcome.listed = addOrder[outcome.playlist]

\* Two songs were added to a playlist; both have position 0, and the listing
\* returned the second one first.
C29_SecondSongFirst ==
    /\ outcome.op = "get_songs_ordered"
    /\ Len(addOrder[outcome.playlist]) = 2
    /\ \A r \in RowsOf(playlist_songs, outcome.playlist) : r.position = 0
    /\ outcome.listed[1] = addOrder[outcome.playlist][2]
    /\ outcome.listed[2] = addOrder[outcome.playlist][1]

\* What holds: a playlist holds a song at most once, the songs it holds are
\* the ones added and not removed, and a listing names each of them once.
C29_SongsOnce ==
    /\ \A p \in PlaylistIds :
          /\ { r.track_uri : r \in RowsOf(playlist_songs, p) } =
                { addOrder[p][i] : i \in 1..Len(addOrder[p]) }
          /\ Cardinality(RowsOf(playlist_songs, p)) = Len(addOrder[p])
    /\ outcome.op = "get_songs_ordered" =>
          { outcome.listed[i] : i \in 1..Len(outcome.listed) } =
             { r.track_uri : r \in RowsOf(playlist_songs, outcome.playlist) }

\* ------------------------------------------------- the Spotify connection
\* Time in ticks: a token lives TokenLifetime ticks (expires_in less the
\* buffer of spotify_auth.py:103 and :123); the clock stops at MaxClock.
TokenLifetime == 2
MaxClock == 4
\* Authorizations stored in one run.
MaxAuths == 2

\* A row of spotify_auth (spotify_auth.py:11-16); refresh_token is NoId when
\* Spotify gave none.
Auth(token, refresh, expires) ==
    [access_token |-> token, refresh_token |-> refresh, token_expires_at |-> expires]
\* The access token Spotify issues next.
FreshToken(table) == Len(table) * MaxClock + 1
RefreshedToken(a, now) == a.access_token + now

\* spotify_auth.py:41-55
is_valid(a, now) == now < a.token_expires_at
is_expired(a, now) == ~is_valid(a, now)

\* spotify_auth.py:65-76: the most recent authorization when it is valid,
\* else None (0).
get_active_auth(table, now) ==
    IF table # <<>> /\ is_valid(table[Len(table)], now) THEN Len(table) ELSE 0

MsgNoAuth == "No valid Spotify authentication found. Please connect to Spotify first."
MsgRefreshFailed == "Spotify token expired and refresh failed. Please reconnect to Spotify."

\* spotify_service.py:108-131 and spotify_auth.py:88-112: the user connects
\* the account and the tokens are stored as a new row.
Connect(refreshable) ==
    /\ Len(spotify_auth) < MaxAuths
    /\ spotify_auth' = Append(spotify_auth,
                              Auth(FreshToken(spotify_auth),
                                   IF refreshable THEN 1 ELSE NoId,
                                   clock + TokenLifetime))
    /\ UNCHANGED <<clock, client>>
    /\ UNCHANGED <<pipeline, normalizer, tagging, importer, playlists, submissions>>

\* Time passes.
Tick ==
    /\ clock < MaxClock
    /\ clock' = clock + 1
    /\ UNCHANGED <<spotify_auth, client>>
    /\ UNCHANGED <<pipeline, normalizer, tagging, importer, playlists, submissions>>

\* spotify_service.py:40-96 and spotify_auth.py:114-132: get_client() with
\* no token_info.  The clock may move between the test of get_active_auth
\* and the test of is_expired; `granted` is whether Spotify grants a refresh
\* and the new token is saved.
GetClient ==
    \E later \in { t \in {clock, clock + 1} : t <= MaxClock }, granted \in BOOLEAN :
       LET n      == Len(spotify_auth)
           stored == n > 0
           last   == IF stored THEN spotify_auth[n] ELSE Auth(NoId, NoId, 0)
           met(result, token, message) ==
               Got(result, token, message, stored, stored /\ is_expired(last, later),
                   last.refresh_token # NoId, granted)
           auth   == get_active_auth(spotify_auth, clock)
       IN
       /\ clock' = later
       /\ UNCHANGED <<pipeline, normalizer, tagging, importer, playlists, submissions>>
       /\ IF auth = 0
          THEN /\ client' = met("error", NoId, MsgNoAuth)
               /\ UNCHANGED spotify_auth
          ELSE IF ~is_expired(spotify_auth[auth], later)
          THEN /\ client' = met("client", spotify_auth[auth].access_token, "")
               /\ UNCHANGED spotify_auth
          ELSE IF spotify_auth[auth].refresh_token = NoId \/ ~granted
          THEN /\ client' = met("error", NoId, MsgRefreshFailed)
               /\ UNCHANGED spotify_auth
          ELSE LET token == RefreshedToken(spotify_auth[auth], later) IN
               /\ spotify_auth' = [spotify_auth EXCEPT
                                      ![auth].access_token = token,
                                      ![auth].token_expires_at = later + TokenLifetime]
               /\ client' = met("client", token, "")

SpotifyInit ==
    /\ PipelineIdle
    /\ NormalizerIdle
    /\ TaggingIdle
    /\ ImporterIdle
    /\ PlaylistsIdle
    /\ submissions = <<>>
    /\ spotify_auth = <<>>
    /\ clock = 0
    /\ client = NoClient

SpotifyNext ==
    \/ \E refreshable \in BOOLEAN : Connect(refreshable)
    \/ Tick
    \/ GetClient

SpotifySpec == SpotifyInit /\ [][SpotifyNext]_vars

\* ------------------------------------- claims about the Spotify connection
\* C30: when the most recent authorization is expired, has a refresh token
\* and the refresh succeeds, get_client stores the new access token and
\* expiry and returns a client; it fails only when no authorization is
\* stored or the refresh fails.
C30_AsStated ==
    /\ (client.stored /\ client.expired /\ client.refreshable /\ client.granted) =>
          /\ client.result = "client"
          /\ spotify_auth[Len(spotify_auth)].access_token = client.access_token
          /\ is_valid(spotify_auth[Len(spotify_auth)], clock)
    /\ client.result = "error" =>
          \/ ~client.stored
          \/ client.expired /\ ~(client.refreshable /\ client.granted)

\* The stored authorization was expired and had a refresh token that Spotify
\* would have honoured: get_client raised the error of a missing
\* authorization and the stored tokens are as they were.
C30_ExpiredNeverRefreshed ==
    /\ client.result = "error"
    /\ client.message = MsgNoAuth
    /\ client.stored /\ client.expired /\ client.refreshable /\ client.granted
    /\ is_expired(spotify_auth[Len(spotify_auth)], clock)

\* What holds: a client is built on the access token of the most recent
\* authorization, which is valid when get_client returns; without a stored
\* authorization get_client fails.
C30_ClientOnValidToken ==
    /\ client.result = "client" =>
          /\ client.stored
          /\ \E i \in 1..Len(spotify_auth) : spotify_auth[i].access_token = client.access_token
    /\ (client.result # "none" /\ ~client.stored) => client.result = "error"

============================================================================
